---- MODULE Spec2Model ----
(***************************************************************************)
(* HAIx_LAB: the gaze/dwell interface (Task_2 BCIInterface, with the       *)
(* Task_1 variant of the same controller) and the calibration controller   *)
(* (Task_3 BCIController).                                                 *)
(*                                                                         *)
(* Units.  Time is in centiseconds (0.01 s): 2.0 s is 200, 0.3 s is 30.    *)
(* Lengths are in pixels.  A comparison of math.hypot values is made on    *)
(* the squared integers, which orders them as Python's floats do for       *)
(* integer arguments of window size.  Dot positions and velocities are     *)
(* kept to the whole pixel, progress in thousandths of a percent and       *)
(* coherence in thousandths; the canvas items are not modelled.            *)
(***************************************************************************)
EXTENDS Integers, Sequences, FiniteSets, TLC

\* Python's None where a box label (1..8) or a timestamp (>= 0) may stand.
None == 0 - 1

(***************************************************************************)
(* src/config.py                                                           *)
(***************************************************************************)
WINDOW_WIDTH == 1200
WINDOW_HEIGHT == 700
CENTER_X == WINDOW_WIDTH \div 2
CENTER_Y == WINDOW_HEIGHT \div 2
CIRCLE_RADIUS == 120
BASE_WIDTH == 1200
BASE_HEIGHT == 700
DEFAULT_HOVER_THRESHOLD == 200
RETURN_DELAY == 30
\* percent per second
PROGRESS_DECAY == 30
INPUT_MODE_MOUSE == "Mouse (Manual)"
INPUT_MODE_TOBII == "Tobii Eye Tracker"

BOX_POSITIONS ==
    << <<-280, -240>>, <<0, -240>>, <<280, -240>>,
       <<-380, 0>>, <<380, 0>>,
       <<-280, 240>>, <<0, 240>>, <<280, 240>> >>

BoxLabels == 1 .. Len(BOX_POSITIONS)

(***************************************************************************)
(* Arithmetic helpers                                                      *)
(***************************************************************************)
Min(a, b) == IF a < b THEN a ELSE b
Max(a, b) == IF a > b THEN a ELSE b

\* Python's int(a / b) for b > 0: truncation toward zero.
TruncDiv(a, b) == IF a >= 0 THEN a \div b ELSE -((-a) \div b)

\* dx*dx + dy*dy, the square of math.hypot(dx, dy).
Hypot2(dx, dy) == dx * dx + dy * dy

\* floor(sqrt(n)) for n >= 0: n itself below 2, else twice the root of
\* n \div 4 or one more.  The bound variables m and s hold computed values
\* (the argument of an operator is computed anew at each of its uses when an
\* ENABLED is evaluated).
RECURSIVE ISqrt(_)
ISqrt(n) ==
    CHOOSE r \in UNION { IF m < 2 THEN { m }
                         ELSE UNION { { s, s + 1 } : s \in { 2 * ISqrt(m \div 4) } } :
                         m \in { n } } :
        \A m \in { n } : r * r <= m /\ (r + 1) * (r + 1) > m

(***************************************************************************)
(* Bounds of the model                                                     *)
(***************************************************************************)
\* The reading of time.time() at construction.
StartTime == 1
\* No tick is taken after this reading of the clock.
MaxTime == 235
\* The electrodes of CrowdDots that are modelled (the first of the 19).
ModelDots == 2

VARIABLES
    bci,     \* the Task_2 BCIInterface object
    tick,    \* the locals of its last animate() call
    bci1,    \* the Task_1 BCIInterface object, given the same inputs
    tick1,   \* the locals of its last animate() call
    ctl,     \* the Task_3 BCIController object
    commands,\* how many calls the user interface made on the controller
    swarm,   \* a CrowdDots object called directly
    swarm_coherence, \* what its last update() returned
    swarm_updates,   \* how many update() calls it has taken
    box,     \* a StimulusBox of src/ui_components.py called directly
    box1,    \* a StimulusBox of Task_1 given the same calls
    start_button, \* the start/stop button of the Task_3 application
    gazing,  \* where the gaze callback and a stepwise animate() stand
    call     \* the operation that ran last and how it returned

vars == <<bci, tick, bci1, tick1, ctl, commands, swarm, swarm_coherence,
         swarm_updates, box, box1, start_button, gazing, call>>

\* The components that are called directly, and the position of the gaze
\* callback and of a stepwise animate().
components == << swarm, swarm_coherence, swarm_updates, box, box1, start_button, gazing >>

(***************************************************************************)
(* src/ui_components.py: CrowdDots                                         *)
(***************************************************************************)
\* electrode_positions, in hundredths.
ELECTRODE_POSITIONS ==
    << <<-22, -82>>, <<22, -82>>,
       <<-65, -50>>, <<-35, -50>>, <<0, -50>>, <<35, -50>>, <<65, -50>>,
       <<-85, 0>>, <<-42, 0>>, <<0, 0>>, <<42, 0>>, <<85, 0>>,
       <<-65, 50>>, <<-35, 50>>, <<0, 50>>, <<35, 50>>, <<65, 50>>,
       <<-22, 78>>, <<22, 78>> >>

DotIds == 1 .. Min(ModelDots, Len(ELECTRODE_POSITIONS))

\* cx + norm_x * radius * 0.85, to the pixel.
HomeOf(i, cx, cy, radius) ==
    << cx + TruncDiv(ELECTRODE_POSITIONS[i][1] * radius * 85, 10000),
       cy + TruncDiv(ELECTRODE_POSITIONS[i][2] * radius * 85, 10000) >>

\* CrowdDots.__init__: every dot at its home, its target its home.
NewCrowdDots(cx, cy, radius) ==
    [ cx |-> cx, cy |-> cy, radius |-> radius,
      positions |-> [i \in DotIds |-> HomeOf(i, cx, cy, radius)],
      home_positions |-> [i \in DotIds |-> HomeOf(i, cx, cy, radius)],
      target_positions |-> [i \in DotIds |-> HomeOf(i, cx, cy, radius)],
      velocities |-> [i \in DotIds |-> << 0, 0 >>] ]

\* The dot is farther than radius * 2 from its new home.
TooFar(p, h, radius) ==
    Hypot2(p[1] - h[1], p[2] - h[2]) > (radius * 2) * (radius * 2)

\* CrowdDots.recenter: the home positions follow the new center and radius; a
\* dot too far from its new home is snapped to it, target included.
Recenter(d, cx, cy, radius) ==
    LET home == [i \in DotIds |-> HomeOf(i, cx, cy, radius)]
        snap == [i \in DotIds |-> TooFar(d.positions[i], home[i], radius)]
    IN  [ d EXCEPT !.cx = cx, !.cy = cy, !.radius = radius,
                   !.home_positions = home,
                   !.positions =
                       [i \in DotIds |-> IF snap[i] THEN home[i] ELSE d.positions[i]],
                   !.target_positions =
                       [i \in DotIds |->
                           IF snap[i] THEN home[i] ELSE d.target_positions[i]],
                   !.velocities =
                       [i \in DotIds |->
                           IF snap[i] THEN << 0, 0 >> ELSE d.velocities[i]] ]

\* A mutation of the push vector: each component is normalized on its own,
\* so the pull is along a diagonal or an axis whatever the direction.
PushVectorPerAxis(dx, dy, radius) ==
    << IF dx = 0 THEN 0 ELSE TruncDiv(dx * radius, 2 * Max(dx, 0 - dx)),
       IF dy = 0 THEN 0 ELSE TruncDiv(dy * radius, 2 * Max(dy, 0 - dy)) >>

\* The shared displacement radius * 0.5 along the unit vector (dx, dy) / dist,
\* in whole pixels toward zero. dist is math.hypot(dx, dy) in sixteenths of a
\* pixel, rounded up, so that no component exceeds its real value.
PushVector(dx, dy, radius) ==
    LET low == ISqrt(256 * Hypot2(dx, dy))
        dist == IF low * low = 256 * Hypot2(dx, dy) THEN low ELSE low + 1
    IN  << TruncDiv(16 * dx * radius, 2 * dist),
           TruncDiv(16 * dy * radius, 2 * dist) >>

\* CrowdDots.set_target
SetTarget(d, target_x, target_y, is_moving) ==
    LET dx == target_x - d.cx
        dy == target_y - d.cy
    IN  IF is_moving /\ Hypot2(dx, dy) > 10 * 10
        THEN [ d EXCEPT !.target_positions =
                 [i \in DotIds |->
                    << d.home_positions[i][1] + PushVector(dx, dy, d.radius)[1],
                       d.home_positions[i][2] + PushVector(dx, dy, d.radius)[2] >>] ]
        ELSE [ d EXCEPT !.target_positions = d.home_positions ]

\* Every dot's target is its home position.
DotsAtHome(d) == \A i \in DotIds : d.target_positions[i] = d.home_positions[i]

\* One pass of the loop of CrowdDots.update for dot i: its new position and
\* velocity, and the speed added to total_speed (taken before the limit).
\* spring_strength is 8.0, damping 0.85, max_speed 300 px/s = 3 px/cs.
DotStep(d, i, dt) ==
    LET p == d.positions[i]
        t == d.target_positions[i]
        v == d.velocities[i]
        dx == t[1] - p[1]
        dy == t[2] - p[2]
        sprung == IF Hypot2(dx, dy) > 0
                  THEN << v[1] + TruncDiv(dx * 8 * dt, 100),
                          v[2] + TruncDiv(dy * 8 * dt, 100) >>
                  ELSE << TruncDiv(v[1], 2), TruncDiv(v[2], 2) >>
        damped == << TruncDiv(sprung[1] * 85, 100), TruncDiv(sprung[2] * 85, 100) >>
        speed == ISqrt(Hypot2(damped[1], damped[2]))
        limited == IF Hypot2(damped[1], damped[2]) > (3 * dt) * (3 * dt)
                   THEN << TruncDiv(damped[1] * 3 * dt, speed),
                           TruncDiv(damped[2] * 3 * dt, speed) >>
                   ELSE damped
        moved == << p[1] + limited[1], p[2] + limited[2] >>
        dx_c == moved[1] - d.cx
        dy_c == moved[2] - d.cy
        dist_c == ISqrt(Hypot2(dx_c, dy_c))
        outside == 400 * Hypot2(dx_c, dy_c) > 361 * d.radius * d.radius
    IN  [ position |-> IF outside
                       THEN << d.cx + TruncDiv(dx_c * 95 * d.radius, 100 * dist_c),
                               d.cy + TruncDiv(dy_c * 95 * d.radius, 100 * dist_c) >>
                       ELSE moved,
          velocity |-> IF outside
                       THEN << TruncDiv(limited[1] * 7, 10), TruncDiv(limited[2] * 7, 10) >>
                       ELSE limited,
          speed |-> speed ]

\* The sum of f[1], ..., f[n].
RECURSIVE SumTo(_, _)
SumTo(f, n) == IF n <= 0 THEN 0 ELSE SumTo(f, n - 1) + f[n]

\* A mutation of the coherence of CrowdDots.update: a swarm at rest counts
\* as fully coherent.
CoherenceOfRestIsOne(avg_vx, avg_vy, total_speed) ==
    IF total_speed > 0
    THEN Max(0, Min(1000, TruncDiv(1000 * ISqrt(Hypot2(avg_vx, avg_vy)), total_speed)))
    ELSE 1000

\* The value CrowdDots.update returns, in thousandths: hypot(avg) over
\* total_speed, 0.0 when total_speed is 0, clamped to [0, 1].
CoherenceOf(avg_vx, avg_vy, total_speed) ==
    IF total_speed > 0
    THEN Max(0, Min(1000, TruncDiv(1000 * ISqrt(Hypot2(avg_vx, avg_vy)), total_speed)))
    ELSE 0

\* CrowdDots.update: the dots it leaves.
UpdateDots(d, dt) ==
    [ d EXCEPT !.positions = [i \in DotIds |-> DotStep(d, i, dt).position],
               !.velocities = [i \in DotIds |-> DotStep(d, i, dt).velocity] ]

\* CrowdDots.update: the coherence it returns.
UpdateCoherence(d, dt) ==
    CoherenceOf(SumTo([i \in DotIds |-> DotStep(d, i, dt).velocity[1]], Cardinality(DotIds)),
                SumTo([i \in DotIds |-> DotStep(d, i, dt).velocity[2]], Cardinality(DotIds)),
                SumTo([i \in DotIds |-> DotStep(d, i, dt).speed], Cardinality(DotIds)))

(***************************************************************************)
(* src/ui_components.py: StimulusBox; src/Task_1/bci_ui/ui_components.py:  *)
(* the StimulusBox whose progress follows the coherence                    *)
(***************************************************************************)
\* A mutation of StimulusBox.update: the decay is not stopped at 0.
StimulusBoxUpdateNoFloor(progress, active, dt, hover_threshold) ==
    IF active
    THEN Min(100000, progress + (IF hover_threshold >= 1
                                 THEN TruncDiv(100000 * dt, hover_threshold)
                                 ELSE 1000000 * dt))
    ELSE progress - PROGRESS_DECAY * 10 * dt

\* StimulusBox.update, "Progress bar animation": the progress it leaves, in
\* thousandths of a percent.  max(0.001, hover_threshold) is a tenth of a
\* centisecond for every threshold below it.
StimulusBoxUpdate(progress, active, dt, hover_threshold) ==
    IF active
    THEN Min(100000, progress + (IF hover_threshold >= 1
                                 THEN TruncDiv(100000 * dt, hover_threshold)
                                 ELSE 1000000 * dt))
    ELSE Max(0, progress - PROGRESS_DECAY * 10 * dt)

\* StimulusBox.update of Task_1/bci_ui/ui_components.py: PROGRESS_SPEED is
\* 1.8 and PROGRESS_DECAY 1.0 percent per call; a neuro box keeps its progress.
StimulusBoxUpdate1(progress, coherence, active, neuro) ==
    IF neuro THEN progress
    ELSE IF active
         THEN Min(100000, progress + TruncDiv(18 * coherence * 2, 10))
         ELSE Max(0, progress - 1000)

(***************************************************************************)
(* src/Task_2/logic_controller.py: BCIInterface                            *)
(* src/Task_1/bci_ui/logic_controller.py: the same controller, mouse only, *)
(* its hover tests written with "is not None"                              *)
(***************************************************************************)
\* Python's truth value of a timestamp or None: None and 0 are false.
Truthy(v) == v # None /\ v # 0

\* BCIInterface.__init__, before its closing call of animate(); the clock
\* reads now.
Constructed(now) ==
    [ width |-> WINDOW_WIDTH, height |-> WINDOW_HEIGHT,
      center_x |-> CENTER_X, center_y |-> CENTER_Y,
      circle_radius |-> CIRCLE_RADIUS,
      dots |-> NewCrowdDots(CENTER_X, CENTER_Y, CIRCLE_RADIUS),
      boxes |-> [i \in BoxLabels |->
                   << CENTER_X + BOX_POSITIONS[i][1], CENTER_Y + BOX_POSITIONS[i][2] >>],
      progress |-> [i \in BoxLabels |-> 0],
      current_input_mode |-> INPUT_MODE_MOUSE,
      mouse_x |-> CENTER_X, mouse_y |-> CENTER_Y,
      gaze_x |-> CENTER_X, gaze_y |-> CENTER_Y,
      neuro_active_box |-> None,
      active_box |-> None,
      hover_start_time |-> None,
      hover_threshold |-> DEFAULT_HOVER_THRESHOLD,
      is_hovering_long_enough |-> FALSE,
      lost_focus_time |-> None,
      return_delay |-> RETURN_DELAY,
      last_time |-> now ]

\* BCIInterface.get_current_position (Task_2)
GetCurrentPosition(b) ==
    IF b.current_input_mode = INPUT_MODE_TOBII
    THEN << b.gaze_x, b.gaze_y >>
    ELSE << b.mouse_x, b.mouse_y >>

\* A neutral zone of half the circle radius.
InNeutralZoneHalf(b, x, y) ==
    100 * Hypot2(x - b.center_x, y - b.center_y)
        < 25 * b.circle_radius * b.circle_radius

\* dist_center < self.circle_radius * 0.7
InNeutralZone(b, x, y) ==
    100 * Hypot2(x - b.center_x, y - b.center_y)
        < 49 * b.circle_radius * b.circle_radius

\* The loop with "d <= min_dist": the last of the nearest boxes is kept.
RECURSIVE ClosestFromLast(_, _, _, _, _)
ClosestFromLast(b, x, y, i, target) ==
    IF i > Len(b.boxes) THEN target
    ELSE LET d2 == Hypot2(x - b.boxes[i][1], y - b.boxes[i][2])
             m2 == Hypot2(x - b.boxes[target][1], y - b.boxes[target][2])
         IN  IF target = None \/ d2 <= m2
             THEN ClosestFromLast(b, x, y, i + 1, i)
             ELSE ClosestFromLast(b, x, y, i + 1, target)

\* The loop of get_closest_box from box i on: target is the box kept so far,
\* None standing for min_dist = inf.
RECURSIVE ClosestFrom(_, _, _, _, _)
ClosestFrom(b, x, y, i, target) ==
    IF i > Len(b.boxes) THEN target
    ELSE LET d2 == Hypot2(x - b.boxes[i][1], y - b.boxes[i][2])
             m2 == Hypot2(x - b.boxes[target][1], y - b.boxes[target][2])
         IN  IF target = None \/ d2 < m2
             THEN ClosestFrom(b, x, y, i + 1, i)
             ELSE ClosestFrom(b, x, y, i + 1, target)

\* get_closest_box at the position (x, y)
ClosestBoxAt(b, x, y) ==
    IF InNeutralZone(b, x, y) THEN None ELSE ClosestFrom(b, x, y, 1, None)

\* BCIInterface.get_closest_box of Task_2
GetClosestBox(b) ==
    ClosestBoxAt(b, GetCurrentPosition(b)[1], GetCurrentPosition(b)[2])

\* BCIInterface.get_closest_box of Task_1
GetClosestBox1(b) == ClosestBoxAt(b, b.mouse_x, b.mouse_y)

\* The hover update that keeps is_hovering_long_enough when the box changes.
HoverUpdateKeepsFlag(b, closest_box, now) ==
    IF closest_box # b.active_box
    THEN [ b EXCEPT !.active_box = closest_box,
                    !.hover_start_time = IF closest_box # None THEN now ELSE None,
                    !.lost_focus_time = IF closest_box = None THEN now ELSE None ]
    ELSE IF b.active_box # None /\ Truthy(b.hover_start_time)
         THEN IF now - b.hover_start_time >= b.hover_threshold
              THEN [ b EXCEPT !.is_hovering_long_enough = TRUE,
                              !.lost_focus_time = None ]
              ELSE b
         ELSE IF b.active_box = None /\ b.lost_focus_time = None
              THEN [ b EXCEPT !.lost_focus_time = now ]
              ELSE b

\* The hover update that keeps hover_start_time when the focus is lost.
HoverUpdateKeepsStart(b, closest_box, now) ==
    IF closest_box # b.active_box
    THEN [ b EXCEPT !.active_box = closest_box,
                    !.hover_start_time = IF closest_box # None THEN now ELSE @,
                    !.is_hovering_long_enough = FALSE,
                    !.lost_focus_time = IF closest_box = None THEN now ELSE None ]
    ELSE IF b.active_box # None /\ Truthy(b.hover_start_time)
         THEN IF now - b.hover_start_time >= b.hover_threshold
              THEN [ b EXCEPT !.is_hovering_long_enough = TRUE,
                              !.lost_focus_time = None ]
              ELSE b
         ELSE IF b.active_box = None /\ b.lost_focus_time = None
              THEN [ b EXCEPT !.lost_focus_time = now ]
              ELSE b

\* The hover update with "now - hover_start_time > hover_threshold".
HoverUpdateStrict(b, closest_box, now) ==
    IF closest_box # b.active_box
    THEN [ b EXCEPT !.active_box = closest_box,
                    !.hover_start_time = IF closest_box # None THEN now ELSE None,
                    !.is_hovering_long_enough = FALSE,
                    !.lost_focus_time = IF closest_box = None THEN now ELSE None ]
    ELSE IF b.active_box # None /\ Truthy(b.hover_start_time)
         THEN IF now - b.hover_start_time > b.hover_threshold
              THEN [ b EXCEPT !.is_hovering_long_enough = TRUE,
                              !.lost_focus_time = None ]
              ELSE b
         ELSE IF b.active_box = None /\ b.lost_focus_time = None
              THEN [ b EXCEPT !.lost_focus_time = now ]
              ELSE b

\* animate, "Hover state management" (Task_2: tests by truth value)
HoverUpdate(b, closest_box, now) ==
    IF closest_box # b.active_box
    THEN [ b EXCEPT !.active_box = closest_box,
                    !.hover_start_time = IF closest_box # None THEN now ELSE None,
                    !.is_hovering_long_enough = FALSE,
                    !.lost_focus_time = IF closest_box = None THEN now ELSE None ]
    ELSE IF b.active_box # None /\ Truthy(b.hover_start_time)
         THEN IF now - b.hover_start_time >= b.hover_threshold
              THEN [ b EXCEPT !.is_hovering_long_enough = TRUE,
                              !.lost_focus_time = None ]
              ELSE b
         ELSE IF b.active_box = None /\ b.lost_focus_time = None
              THEN [ b EXCEPT !.lost_focus_time = now ]
              ELSE b

\* animate, "Hover state machine" (Task_1: tests with "is not None")
HoverUpdate1(b, closest_box, now) ==
    IF closest_box # b.active_box
    THEN [ b EXCEPT !.active_box = closest_box,
                    !.hover_start_time = IF closest_box # None THEN now ELSE None,
                    !.is_hovering_long_enough = FALSE,
                    !.lost_focus_time = IF closest_box = None THEN now ELSE None ]
    ELSE IF b.active_box # None /\ b.hover_start_time # None
         THEN IF now - b.hover_start_time >= b.hover_threshold
              THEN [ b EXCEPT !.is_hovering_long_enough = TRUE,
                              !.lost_focus_time = None ]
              ELSE b
         ELSE IF b.active_box = None /\ b.lost_focus_time = None
              THEN [ b EXCEPT !.lost_focus_time = now ]
              ELSE b

\* The decision with "(now - lost_focus_time) <= return_delay".
ShouldMoveDotsInclusive(b, now) ==
    IF b.is_hovering_long_enough /\ b.active_box # None THEN TRUE
    ELSE IF Truthy(b.lost_focus_time)
         THEN (now - b.lost_focus_time) <= b.return_delay
         ELSE FALSE

\* A mutation of the decision: the dots move as soon as a box is focused,
\* whatever the dwell.
ShouldMoveDotsOnFocus(b, now) ==
    IF b.active_box # None THEN TRUE
    ELSE IF Truthy(b.lost_focus_time)
         THEN (now - b.lost_focus_time) < b.return_delay
         ELSE FALSE

\* animate, "Determine if dots should move" (Task_2)
ShouldMoveDots(b, now) ==
    IF b.is_hovering_long_enough /\ b.active_box # None THEN TRUE
    ELSE IF Truthy(b.lost_focus_time)
         THEN (now - b.lost_focus_time) < b.return_delay
         ELSE FALSE

\* animate, "Determine if dots should move" (Task_1)
ShouldMoveDots1(b, now) ==
    IF b.is_hovering_long_enough /\ b.active_box # None THEN TRUE
    ELSE IF b.lost_focus_time # None
         THEN (now - b.lost_focus_time) < b.return_delay
         ELSE FALSE

\* animate, "Update dot targets": the dots head for the cursor only while a
\* box is active.
UpdateDotTargets(b, should_move_dots, cursor) ==
    IF should_move_dots /\ b.active_box # None
    THEN [ b EXCEPT !.dots = SetTarget(b.dots, cursor[1], cursor[2], TRUE) ]
    ELSE [ b EXCEPT !.dots = SetTarget(b.dots, b.center_x, b.center_y, FALSE) ]

\* The locals of one animate() call, as they stand when it returns.
Locals(now, dt, cursor, closest_box, should_move_dots, active_box, coherence) ==
    [ now |-> now, dt |-> dt,
      cursor_x |-> cursor[1], cursor_y |-> cursor[2],
      closest_box |-> closest_box,
      should_move_dots |-> should_move_dots,
      is_moving |-> should_move_dots /\ active_box # None,
      coherence |-> coherence ]

\* animate, "Update dots": the physics step on the targets just assigned.
UpdateSwarm(b, dt) == [ b EXCEPT !.dots = UpdateDots(b.dots, dt) ]

\* animate, "Update boxes": every box with is_active = (box == closest_box),
\* the frame's dt and the threshold the interface holds.
UpdateBoxes(b, closest_box, dt) ==
    [ b EXCEPT !.progress = [i \in BoxLabels |->
                   StimulusBoxUpdate(b.progress[i], i = closest_box, dt,
                                     b.hover_threshold)] ]

\* animate of Task_2 from "Hover state management" to the update of the
\* dots, for the closest_box and the cursor position it has read.
AnimateWith(b, now, closest_box, cursor) ==
    LET hovered == HoverUpdate([b EXCEPT !.last_time = now], closest_box, now)
        targeted == UpdateDotTargets(hovered, ShouldMoveDots(hovered, now), cursor)
    IN  UpdateSwarm(targeted, now - b.last_time)

\* ... and its locals.
AnimateLocalsWith(b, now, closest_box, cursor) ==
    LET hovered == HoverUpdate([b EXCEPT !.last_time = now], closest_box, now)
        targeted == UpdateDotTargets(hovered, ShouldMoveDots(hovered, now), cursor)
    IN  Locals(now, now - b.last_time, cursor, closest_box,
               ShouldMoveDots(hovered, now), hovered.active_box,
               UpdateCoherence(targeted.dots, now - b.last_time))

\* A mutation of animate: the dots are integrated before the targets of the
\* tick are assigned, so the physics lags one tick behind the dwell state.
AnimateObjectLagging(b, now) ==
    LET hovered == HoverUpdate([b EXCEPT !.last_time = now], GetClosestBox(b), now)
    IN  UpdateDotTargets(UpdateSwarm(hovered, now - b.last_time),
                         ShouldMoveDots(hovered, now), GetCurrentPosition(b))

\* BCIInterface.animate of Task_2 at clock reading now: the interface and
\* the swarm it leaves.  The progress bars of the boxes, which nothing in the
\* interface reads, are left to AnimateFrameObject.
AnimateObject(b, now) == AnimateWith(b, now, GetClosestBox(b), GetCurrentPosition(b))

\* BCIInterface.animate of Task_2 with the boxes: the whole frame.
AnimateFrameObject(b, now) ==
    UpdateBoxes(AnimateObject(b, now), GetClosestBox(b), now - b.last_time)

\* ... and its locals.
AnimateLocals(b, now) ==
    AnimateLocalsWith(b, now, GetClosestBox(b), GetCurrentPosition(b))

\* BCIInterface.animate of Task_1
AnimateObject1(b, now) ==
    LET hovered == HoverUpdate1([b EXCEPT !.last_time = now], GetClosestBox1(b), now)
        targeted == UpdateDotTargets(hovered, ShouldMoveDots1(hovered, now),
                                     << b.mouse_x, b.mouse_y >>)
    IN  UpdateSwarm(targeted, now - b.last_time)

AnimateFrameObject1(b, now) ==
    UpdateBoxes(AnimateObject1(b, now), GetClosestBox1(b), now - b.last_time)

AnimateLocals1(b, now) ==
    LET hovered == HoverUpdate1([b EXCEPT !.last_time = now], GetClosestBox1(b), now)
        targeted == UpdateDotTargets(hovered, ShouldMoveDots1(hovered, now),
                                     << b.mouse_x, b.mouse_y >>)
    IN  Locals(now, now - b.last_time, << b.mouse_x, b.mouse_y >>, GetClosestBox1(b),
               ShouldMoveDots1(hovered, now), hovered.active_box,
               UpdateCoherence(targeted.dots, now - b.last_time))

\* BCIInterface.update_layout.  int(CIRCLE_RADIUS * scale) and int(dx * scale_x)
\* are taken on the exact quotients, which is what the floats give for the
\* window sizes of LayoutSizes.
UpdateLayoutObject(b, new_width, new_height) ==
    IF new_width <= 0 \/ new_height <= 0 THEN b
    ELSE LET cx == new_width \div 2
             cy == new_height \div 2
             radius == Max(60, Min(TruncDiv(CIRCLE_RADIUS * new_width, BASE_WIDTH),
                                   TruncDiv(CIRCLE_RADIUS * new_height, BASE_HEIGHT)))
         IN  [ b EXCEPT !.width = new_width, !.height = new_height,
                        !.center_x = cx, !.center_y = cy,
                        !.circle_radius = radius,
                        !.dots = Recenter(b.dots, cx, cy, radius),
                        !.boxes = [i \in BoxLabels |->
                            << cx + TruncDiv(BOX_POSITIONS[i][1] * new_width, BASE_WIDTH),
                               cy + TruncDiv(BOX_POSITIONS[i][2] * new_height, BASE_HEIGHT) >>] ]

\* How a call ended: its return value ("None", "True", "False") when it raised
\* nothing.
Returned(op, ret) == [ op |-> op, ret |-> ret, raised |-> FALSE ]

\* ... of a resize, with the size it was given.
ReturnedFor(op, ret, width, height) ==
    [ op |-> op, ret |-> ret, raised |-> FALSE, args |-> << width, height >> ]

(***************************************************************************)
(* The inputs                                                              *)
(***************************************************************************)
\* Window sizes of a <Configure> event, two of them not positive.
LayoutSizes == { <<1200, 700>>, <<900, 650>>, <<1600, 900>>, <<0, 700>>, <<1200, -1>> }

\* Cursor positions: the center, both sides of the neutral radius of the
\* layouts above (84 at 1200 x 700), box centers, and points at equal distance
\* from two boxes.
PointerXs == { 320, 460, 516, 517, 600, 880 }
PointerYs == { 110, 325, 350, 450 }
Pointers == { << x, y >> : x \in PointerXs, y \in PointerYs }

\* The cursor positions of a dwell: the center, box 1 and box 2.
DwellPointers == { <<600, 350>>, <<320, 110>>, <<600, 110>> }

\* The time between two readings of the clock by animate().
Dts == { 0, 29, 30, 31, 170 }

(***************************************************************************)
(* The operations of the two interfaces; each input goes to both          *)
(***************************************************************************)
\* BCIInterface.on_mouse_move
OnMouseMove(x, y) ==
    /\ bci' = [ bci EXCEPT !.mouse_x = x, !.mouse_y = y ]
    /\ bci1' = [ bci1 EXCEPT !.mouse_x = x, !.mouse_y = y ]
    /\ call' = Returned("on_mouse_move", "None")
    /\ UNCHANGED << tick, tick1, ctl, commands, components >>

\* BCIInterface.on_neuro_trigger
OnNeuroTrigger ==
    /\ bci' = [ bci EXCEPT !.neuro_active_box = GetClosestBox(bci) ]
    /\ bci1' = [ bci1 EXCEPT !.neuro_active_box = GetClosestBox1(bci1) ]
    /\ call' = Returned("on_neuro_trigger", "None")
    /\ UNCHANGED << tick, tick1, ctl, commands, components >>

\* BCIInterface.update_layout
UpdateLayout(new_width, new_height) ==
    /\ bci' = UpdateLayoutObject(bci, new_width, new_height)
    /\ bci1' = UpdateLayoutObject(bci1, new_width, new_height)
    /\ call' = ReturnedFor("update_layout", "None", new_width, new_height)
    /\ UNCHANGED << tick, tick1, ctl, commands, components >>

\* BCIInterface.animate, dt after the previous reading of the clock
Animate(dt) ==
    /\ bci.last_time + dt <= MaxTime
    /\ bci' = AnimateObject(bci, bci.last_time + dt)
    /\ tick' = AnimateLocals(bci, bci.last_time + dt)
    /\ bci1' = AnimateObject1(bci1, bci1.last_time + dt)
    /\ tick1' = AnimateLocals1(bci1, bci1.last_time + dt)
    /\ call' = Returned("animate", "None")
    /\ UNCHANGED << ctl, commands, components >>

\* The time between two frames of the whole animate(): none, one second.
FrameDts == { 0, 100 }
\* No whole frame is taken after this reading of the clock.
MaxFrameTime == 401

\* BCIInterface.animate with the boxes, dt after the previous reading of the
\* clock
AnimateFrame(dt) ==
    /\ bci.last_time + dt <= MaxFrameTime
    /\ bci' = AnimateFrameObject(bci, bci.last_time + dt)
    /\ tick' = AnimateLocals(bci, bci.last_time + dt)
    /\ bci1' = AnimateFrameObject1(bci1, bci1.last_time + dt)
    /\ tick1' = AnimateLocals1(bci1, bci1.last_time + dt)
    /\ call' = Returned("animate", "None")
    /\ UNCHANGED << ctl, commands, components >>

\* Three of the HOVER_THRESHOLD_OPTIONS of the dwell-time control: 1, 2 and
\* 3 seconds.
HoverThresholds == { 100, 200, 300 }
\* The dwell time is changed at most this many times in one behaviour.
MaxThresholdChanges == 1

\* BCIInterface.set_hover_threshold (Task_2)
SetHoverThreshold(threshold) ==
    /\ commands < MaxThresholdChanges
    /\ commands' = commands + 1
    /\ bci' = [ bci EXCEPT !.hover_threshold = threshold ]
    /\ call' = Returned("set_hover_threshold", "None")
    /\ UNCHANGED << tick, bci1, tick1, ctl, components >>

\* The interfaces as constructed: __init__ ends with a first animate().
InitInterfaces ==
    /\ bci = AnimateObject(Constructed(StartTime), StartTime)
    /\ tick = AnimateLocals(Constructed(StartTime), StartTime)
    /\ bci1 = AnimateObject1(Constructed(StartTime), StartTime)
    /\ tick1 = AnimateLocals1(Constructed(StartTime), StartTime)

(***************************************************************************)
(* Eye-tracker mode of Task_2: the gaze callback runs on the thread of the *)
(* tracker, one statement at a time, between the statements of animate()   *)
(***************************************************************************)
\* Gaze samples as the tracker delivers them, normalized, in thousandths:
\* the center of the display, box 1 and box 2.
GazeSamples == { << 500, 500 >>, << 267, 158 >>, << 500, 158 >> }

\* The time between two frames while the gaze is followed.
GazeDts == { 100 }
\* No frame is started after this reading of the clock.
MaxGazeTime == 301

\* int(norm_x * self.width), int(norm_y * self.height)
GazePixel(b, sample) ==
    << TruncDiv(sample[1] * b.width, 1000), TruncDiv(sample[2] * b.height, 1000) >>

\* BCIInterface.set_input_mode; available is what is_available() answers.
SetInputMode(mode, available) ==
    /\ gazing.animate_pc = "idle"
    /\ bci' = [ bci EXCEPT !.current_input_mode =
                    IF mode = INPUT_MODE_TOBII /\ available
                    THEN INPUT_MODE_TOBII ELSE INPUT_MODE_MOUSE ]
    /\ call' = Returned("set_input_mode", "None")
    /\ UNCHANGED << tick, bci1, tick1, ctl, commands, swarm, swarm_coherence,
                    swarm_updates, box, box1, start_button, gazing >>

\* on_gaze_update, first statement: self.gaze_x = int(norm_x * self.width)
GazeWriteX(sample) ==
    /\ bci.current_input_mode = INPUT_MODE_TOBII
    /\ gazing.callback_pc = "idle"
    /\ bci' = [ bci EXCEPT !.gaze_x = GazePixel(bci, sample)[1] ]
    /\ gazing' = [ gazing EXCEPT !.callback_pc = "wrote_x", !.sample = sample ]
    /\ UNCHANGED << tick, bci1, tick1, ctl, commands, swarm, swarm_coherence,
                    swarm_updates, box, box1, start_button, call >>

\* on_gaze_update, second statement: self.gaze_y = int(norm_y * self.height)
GazeWriteY ==
    /\ gazing.callback_pc = "wrote_x"
    /\ bci' = [ bci EXCEPT !.gaze_y = GazePixel(bci, gazing.sample)[2] ]
    /\ gazing' = [ gazing EXCEPT !.callback_pc = "idle" ]
    /\ UNCHANGED << tick, bci1, tick1, ctl, commands, swarm, swarm_coherence,
                    swarm_updates, box, box1, start_button, call >>

\* animate up to "cursor_x, cursor_y = self.get_current_position()"
AnimateSample(dt) ==
    /\ gazing.animate_pc = "idle"
    /\ bci.last_time + dt <= MaxGazeTime
    /\ gazing' = [ gazing EXCEPT !.animate_pc = "sampled",
                                 !.now = bci.last_time + dt,
                                 !.cursor = GetCurrentPosition(bci) ]
    /\ UNCHANGED << bci, tick, bci1, tick1, ctl, commands, swarm, swarm_coherence,
                    swarm_updates, box, box1, start_button, call >>

\* animate, "closest_box = self.get_closest_box()", which reads the position
\* again
AnimateResolve ==
    /\ gazing.animate_pc = "sampled"
    /\ gazing' = [ gazing EXCEPT !.animate_pc = "resolved",
                                 !.focus_at = GetCurrentPosition(bci),
                                 !.closest_box = GetClosestBox(bci) ]
    /\ UNCHANGED << bci, tick, bci1, tick1, ctl, commands, swarm, swarm_coherence,
                    swarm_updates, box, box1, start_button, call >>

\* animate from "Hover state management" to its end
AnimateFinish ==
    /\ gazing.animate_pc = "resolved"
    /\ bci' = UpdateBoxes(AnimateWith(bci, gazing.now, gazing.closest_box, gazing.cursor),
                          gazing.closest_box, gazing.now - bci.last_time)
    /\ tick' = AnimateLocalsWith(bci, gazing.now, gazing.closest_box, gazing.cursor)
    /\ gazing' = [ gazing EXCEPT !.animate_pc = "idle" ]
    /\ call' = Returned("animate", "None")
    /\ UNCHANGED << bci1, tick1, ctl, commands, swarm, swarm_coherence,
                    swarm_updates, box, box1, start_button >>

\* The gaze thread and animate() before the first callback and frame.
InitGazing ==
    gazing = [ animate_pc |-> "idle", callback_pc |-> "idle",
               now |-> StartTime,
               cursor |-> << CENTER_X, CENTER_Y >>,
               focus_at |-> << CENTER_X, CENTER_Y >>,
               closest_box |-> None,
               sample |-> << 500, 500 >> ]

(***************************************************************************)
(* src/Task_3/code/config.py                                               *)
(***************************************************************************)
T3_WINDOW_WIDTH == 1200
T3_WINDOW_HEIGHT == 800
CONTROL_PANEL_HEIGHT == 60
STIMULUS_CIRCLE_COUNT == 8
DEFAULT_FOCUS_TIME == 300
DEFAULT_GAP_TIME == 200
DEFAULT_CALIBRATION_ROUNDS == 5
PHASE_TESTING == "Testing Phase"
PHASE_CALIBRATION == "Calibration Phase"
PHASE_START == "Start Phase"
PHASES == { PHASE_TESTING, PHASE_CALIBRATION, PHASE_START }
T3_INPUT_MODE_MOUSE == "Mouse Cursor"
T3_INPUT_MODE_TOBII == "Tobii Eye Tracker"

\* STIMULUS_ANGLES as (cos, sin) in thousandths: 0, 45, ..., 315 degrees.
STIMULUS_ANGLES ==
    << <<1000, 0>>, <<707, 707>>, <<0, 1000>>, <<-707, 707>>,
       <<-1000, 0>>, <<-707, -707>>, <<0, -1000>>, <<707, -707>> >>

\* int(min_dimension * CENTER_CIRCLE_RADIUS_RATIO), the ratio 0.25
CalculateCenterRadius(width, height) ==
    TruncDiv(Min(width, height - CONTROL_PANEL_HEIGHT) * 25, 100)

\* int(min_dimension * STIMULUS_DISTANCE_RATIO), the ratio 0.45
StimulusDistance(width, height) ==
    TruncDiv(Min(width, height - CONTROL_PANEL_HEIGHT) * 45, 100)

(***************************************************************************)
(* src/Task_3/code/ui_components.py: Dot, CenterCircle, StimulusCircle     *)
(***************************************************************************)
\* One outcome of the random grid of _create_dots for the radius 185: the
\* home positions, as offsets from the center.
DOT_HOME_OFFSETS == << <<-21, -21>>, <<63, 21>>, <<-106, 63>>, <<21, -148>> >>

T3DotIds == 1 .. Min(ModelDots, Len(DOT_HOME_OFFSETS))

\* CenterCircle.__init__ and Dot.__init__: every dot's target is its home.
NewCenterCircle(cx, cy, radius) ==
    [ center_x |-> cx, center_y |-> cy, radius |-> radius,
      dots |-> [i \in T3DotIds |->
                  [ home_x |-> cx + DOT_HOME_OFFSETS[i][1],
                    home_y |-> cy + DOT_HOME_OFFSETS[i][2],
                    target_x |-> cx + DOT_HOME_OFFSETS[i][1],
                    target_y |-> cy + DOT_HOME_OFFSETS[i][2] ]] ]

\* CenterCircle.return_dots_home
ReturnDotsHome(cc) ==
    [ cc EXCEPT !.dots = [i \in T3DotIds |->
        [ cc.dots[i] EXCEPT !.target_x = cc.dots[i].home_x,
                            !.target_y = cc.dots[i].home_y ]] ]

\* The point (x, y) brought back to radius * 0.95 from the center when it
\* lies farther out ("Keep within circle boundary").
KeepWithinCircle(cc, x, y) ==
    LET clamped(p) ==
            LET dx_center == p[1] - cc.center_x
                dy_center == p[2] - cc.center_y
                d2 == Hypot2(dx_center, dy_center)
            IN  IF d2 > TruncDiv(361 * cc.radius * cc.radius, 400)
                THEN << cc.center_x
                            + TruncDiv(dx_center * 95 * cc.radius, 100 * ISqrt(d2)),
                        cc.center_y
                            + TruncDiv(dy_center * 95 * cc.radius, 100 * ISqrt(d2)) >>
                ELSE p
    IN  CHOOSE q \in { clamped(p) : p \in { << x, y >> } } : TRUE

\* CenterCircle.move_dots_toward with progress_ratio = num / den, den > 0
MoveDotsToward(cc, target_x, target_y, num, den) ==
    LET dx == target_x - cc.center_x
        dy == target_y - cc.center_y
        pushed(i, dist) ==
            KeepWithinCircle(cc,
                cc.dots[i].home_x + TruncDiv(dx * cc.radius * num, 2 * den * dist),
                cc.dots[i].home_y + TruncDiv(dy * cc.radius * num, 2 * den * dist))
    IN  IF Hypot2(dx, dy) > 10 * 10
        THEN CHOOSE moved \in
                 { [ cc EXCEPT !.dots = [i \in T3DotIds |->
                       [ cc.dots[i] EXCEPT !.target_x = pushed(i, dist)[1],
                                           !.target_y = pushed(i, dist)[2] ]] ] :
                   dist \in { ISqrt(Hypot2(dx, dy)) } } : TRUE
        ELSE ReturnDotsHome(cc)

\* CenterCircle.resize: the home of every dot keeps its offset from the
\* center, scaled by radius / self.radius (by 1 when self.radius is not
\* positive); a dot whose target_x is its home_x is moved with its home.
ResizeCenterCircle(cc, center_x, center_y, radius) ==
    LET num == IF cc.radius > 0 THEN radius ELSE 1
        den == IF cc.radius > 0 THEN cc.radius ELSE 1
        new_home_x(i) == center_x + TruncDiv((cc.dots[i].home_x - cc.center_x) * num, den)
        new_home_y(i) == center_y + TruncDiv((cc.dots[i].home_y - cc.center_y) * num, den)
        at_home(i) == cc.dots[i].target_x = cc.dots[i].home_x
    IN  [ center_x |-> center_x, center_y |-> center_y, radius |-> radius,
          dots |-> [i \in T3DotIds |->
                      [ home_x |-> new_home_x(i),
                        home_y |-> new_home_y(i),
                        target_x |-> IF at_home(i) THEN new_home_x(i)
                                     ELSE cc.dots[i].target_x,
                        target_y |-> IF at_home(i) THEN new_home_y(i)
                                     ELSE cc.dots[i].target_y ]] ]

\* BCIController.resize: no size is turned away.
ResizeObject(c, width, height) ==
    [ c EXCEPT !.width = width, !.height = height,
               !.center_x = width \div 2, !.center_y = height \div 2,
               !.center_radius = CalculateCenterRadius(width, height),
               !.center_circle =
                   ResizeCenterCircle(c.center_circle, width \div 2, height \div 2,
                                      CalculateCenterRadius(width, height)),
               !.stimulus_circles = [i \in 1 .. STIMULUS_CIRCLE_COUNT |->
                   [ c.stimulus_circles[i] EXCEPT
                       !.center_x = width \div 2
                           + TruncDiv(StimulusDistance(width, height)
                                      * STIMULUS_ANGLES[i][1], 1000),
                       !.center_y = height \div 2
                           + TruncDiv(StimulusDistance(width, height)
                                      * STIMULUS_ANGLES[i][2], 1000) ]] ]

\* Every dot of the center circle has its home position as target.
AllDotsHome(cc) ==
    \A i \in T3DotIds : /\ cc.dots[i].target_x = cc.dots[i].home_x
                        /\ cc.dots[i].target_y = cc.dots[i].home_y

(***************************************************************************)
(* src/Task_3/code/controller.py: BCIController                            *)
(***************************************************************************)
\* A message handed to status_callback; k/total are the round numbers of a
\* "Calibration: Round k/total" message and 0 otherwise.
Message(text, level) == [ text |-> text, level |-> level, k |-> 0, total |-> 0 ]
RoundMessage(k, total) ==
    [ text |-> "Calibration: Round", level |-> "info", k |-> k, total |-> total ]

\* BCIController._update_status: the message reaches the status callback.
\* completions counts the "Calibration Complete!" messages of the run.
UpdateStatus(c, msg) ==
    [ c EXCEPT !.status = msg,
               !.completions =
                   IF msg.text = "Calibration Complete!" THEN @ + 1 ELSE @ ]

\* _create_stimulus_circles: circle number i at index i (0-based in the
\* source, i + 1 here), at the rounded pixel.
StimulusCircles(cx, cy, distance) ==
    [ i \in 1 .. STIMULUS_CIRCLE_COUNT |->
        [ number |-> i,
          center_x |-> cx + TruncDiv(distance * STIMULUS_ANGLES[i][1], 1000),
          center_y |-> cy + TruncDiv(distance * STIMULUS_ANGLES[i][2], 1000),
          is_glowing |-> FALSE ] ]

\* BCIController.__init__; the clock reads now.
T3Constructed(now) ==
    [ width |-> T3_WINDOW_WIDTH, height |-> T3_WINDOW_HEIGHT,
      center_x |-> T3_WINDOW_WIDTH \div 2, center_y |-> T3_WINDOW_HEIGHT \div 2,
      center_radius |-> CalculateCenterRadius(T3_WINDOW_WIDTH, T3_WINDOW_HEIGHT),
      center_circle |->
          NewCenterCircle(T3_WINDOW_WIDTH \div 2, T3_WINDOW_HEIGHT \div 2,
                          CalculateCenterRadius(T3_WINDOW_WIDTH, T3_WINDOW_HEIGHT)),
      stimulus_circles |->
          StimulusCircles(T3_WINDOW_WIDTH \div 2, T3_WINDOW_HEIGHT \div 2,
                          StimulusDistance(T3_WINDOW_WIDTH, T3_WINDOW_HEIGHT)),
      timer_visible |-> FALSE,
      input_mode |-> T3_INPUT_MODE_MOUSE,
      tobii_running |-> FALSE,
      mouse_x |-> T3_WINDOW_WIDTH \div 2, mouse_y |-> T3_WINDOW_HEIGHT \div 2,
      gaze_x |-> T3_WINDOW_WIDTH \div 2, gaze_y |-> T3_WINDOW_HEIGHT \div 2,
      current_phase |-> PHASE_TESTING,
      focus_time |-> DEFAULT_FOCUS_TIME,
      gap_time |-> DEFAULT_GAP_TIME,
      calibration_rounds |-> DEFAULT_CALIBRATION_ROUNDS,
      calibration_active |-> FALSE,
      calibration_sequence |-> << >>,
      current_calibration_index |-> 0,
      calibration_start_time |-> None,
      calibration_session_start |-> None,
      calibration_completed_rounds |-> 0,
      is_in_glow_phase |-> FALSE,
      is_in_gap_phase |-> FALSE,
      last_time |-> now,
      running |-> FALSE,
      status |-> Message("", "info"),
      completions |-> 0 ]

\* BCIController.get_current_position
T3GetCurrentPosition(c) ==
    IF c.input_mode = T3_INPUT_MODE_TOBII
    THEN << c.gaze_x, c.gaze_y >>
    ELSE << c.mouse_x, c.mouse_y >>

\* BCIController._deactivate_all_stimuli
DeactivateAllStimuli(c) ==
    [ c EXCEPT !.stimulus_circles =
        [i \in DOMAIN c.stimulus_circles |->
            [ c.stimulus_circles[i] EXCEPT !.is_glowing = FALSE ]] ]

\* A mutation of _activate_stimulus: the circles that glow are left glowing.
ActivateStimulusKeeping(c, index) ==
    [ c EXCEPT !.stimulus_circles[index + 1].is_glowing = TRUE ]

\* BCIController._activate_stimulus; index is the 0-based circle index.
ActivateStimulus(c, index) ==
    [ DeactivateAllStimuli(c) EXCEPT !.stimulus_circles[index + 1].is_glowing = TRUE ]

\* BCIController.stop_calibration
StopCalibrationObject(c) ==
    IF c.calibration_active
    THEN UpdateStatus(
             [ DeactivateAllStimuli(c) EXCEPT
                   !.calibration_active = FALSE,
                   !.center_circle = ReturnDotsHome(c.center_circle),
                   !.timer_visible = FALSE ],
             Message("Calibration Stopped", "warning"))
    ELSE c

\* The status message of set_phase for a phase.
PhaseMessage(phase) ==
    IF phase = PHASE_TESTING
    THEN Message("Testing Phase - Move cursor/gaze to test", "info")
    ELSE IF phase = PHASE_CALIBRATION
         THEN Message("Calibration Phase - Click 'Start' to begin", "info")
         ELSE Message("Start Phase - System ready for use", "success")

\* A mutation of set_phase: a running calibration is not stopped.
SetPhaseKeepsRunning(c, phase) ==
    UpdateStatus([ c EXCEPT !.current_phase = phase ], PhaseMessage(phase))

\* BCIController.set_phase
SetPhaseObject(c, phase) ==
    UpdateStatus([ StopCalibrationObject(c) EXCEPT !.current_phase = phase ],
                 PhaseMessage(phase))

\* Outcomes of random.shuffle(list(range(8))): the identity, the reversal and
\* one mixed order, out of the 8! orders the shuffle can produce.
Shuffles ==
    { << 0, 1, 2, 3, 4, 5, 6, 7 >>,
      << 7, 6, 5, 4, 3, 2, 1, 0 >>,
      << 3, 7, 0, 5, 1, 6, 2, 4 >> }

\* The calibration_sequence after the first round_num passes of the loop of
\* _generate_calibration_sequence; blocks[r] is the shuffled list of pass r.
RECURSIVE SequenceAfter(_, _)
SequenceAfter(round_num, blocks) ==
    IF round_num <= 0
    THEN << >>
    ELSE SequenceAfter(round_num - 1, blocks) \o blocks[round_num]

\* A mutation of _generate_calibration_sequence: one pass too few.
GenerateOnePassShort(rounds, blocks) == SequenceAfter(rounds - 1, blocks)

\* BCIController._generate_calibration_sequence: range(rounds) passes.
GenerateCalibrationSequence(rounds, blocks) == SequenceAfter(rounds, blocks)

\* start_calibration up to timer.show(), the clock reading now.
StartedFields(c, blocks, now) ==
    [ c EXCEPT !.calibration_sequence =
                   GenerateCalibrationSequence(c.calibration_rounds, blocks),
               !.calibration_active = TRUE,
               !.current_calibration_index = 0,
               !.calibration_completed_rounds = 0,
               !.calibration_start_time = now,
               !.calibration_session_start = now,
               !.is_in_glow_phase = TRUE,
               !.is_in_gap_phase = FALSE,
               !.timer_visible = TRUE,
               !.completions = 0 ]

\* A mutation of start_calibration: the phase is not looked at.
StartCalibrationAnyPhase(c, blocks, now) ==
    IF StartedFields(c, blocks, now).calibration_sequence = << >>
    THEN StartedFields(c, blocks, now)
    ELSE UpdateStatus(
             ActivateStimulus(StartedFields(c, blocks, now),
                              StartedFields(c, blocks, now).calibration_sequence[1]),
             RoundMessage(1, c.calibration_rounds))

\* BCIController.start_calibration, the object it leaves.  With an empty
\* sequence calibration_sequence[0] raises IndexError after the fields and
\* the timer were set.
StartCalibrationObject(c, blocks, now) ==
    IF c.current_phase # PHASE_CALIBRATION
    THEN UpdateStatus(c, Message("Switch to Calibration Phase first", "error"))
    ELSE IF StartedFields(c, blocks, now).calibration_sequence = << >>
         THEN StartedFields(c, blocks, now)
         ELSE UpdateStatus(
                  ActivateStimulus(StartedFields(c, blocks, now),
                      StartedFields(c, blocks, now).calibration_sequence[1]),
                  RoundMessage(1, c.calibration_rounds))

\* BCIController.start_calibration, what the caller gets.
StartCalibrationCall(c, blocks) ==
    IF c.current_phase # PHASE_CALIBRATION
    THEN Returned("start_calibration", "False")
    ELSE IF GenerateCalibrationSequence(c.calibration_rounds, blocks) = << >>
         THEN [ op |-> "start_calibration", ret |-> "None", raised |-> TRUE ]
         ELSE Returned("start_calibration", "True")

\* _update_calibration raises: past the trigger the glow phase reads
\* calibration_sequence[current_calibration_index], an IndexError for an
\* empty sequence, and divides by remaining_time, a ZeroDivisionError for a
\* focus_time of 0.
UpdateCalibrationRaises(c, now) ==
    /\ c.is_in_glow_phase
    /\ 100 * (now - c.calibration_start_time) >= 83 * c.focus_time
    /\ \/ c.current_calibration_index >= Len(c.calibration_sequence)
       \/ c.focus_time = 0

\* The greatest common divisor of a >= 0 and b >= 0, 1 when both are 0.
RECURSIVE GCD(_, _)
GCD(a, b) == IF b = 0 THEN Max(a, 1) ELSE GCD(b, a % b)

\* A mutation of the glow branch: is_in_glow_phase is left set when the gap
\* phase begins, and the dots are not moved.
GlowPhaseKeepsGlow(c, now) ==
    IF now - c.calibration_start_time >= c.focus_time
    THEN [ DeactivateAllStimuli(c) EXCEPT
               !.is_in_gap_phase = TRUE,
               !.calibration_start_time = now,
               !.center_circle = ReturnDotsHome(c.center_circle) ]
    ELSE c

\* The glow branch of _update_calibration.  progress is
\* min(1.0, time_in_move_phase / remaining_time), here a fraction with a
\* positive denominator; a negative focus_time makes remaining_time negative
\* and the progress at most 0 (the fraction is then given in lowest terms).
GlowPhase(c, now) ==
    LET elapsed == now - c.calibration_start_time
        stimulus == c.stimulus_circles[
                        c.calibration_sequence[c.current_calibration_index + 1] + 1]
        time_in_move_phase == 100 * elapsed - 83 * c.focus_time
        remaining_time == 17 * c.focus_time
        moved ==
            IF 100 * elapsed >= 83 * c.focus_time
            THEN [ c EXCEPT !.center_circle =
                     IF remaining_time > 0
                     THEN MoveDotsToward(c.center_circle,
                              stimulus.center_x, stimulus.center_y,
                              Min(time_in_move_phase, remaining_time), remaining_time)
                     ELSE MoveDotsToward(c.center_circle,
                              stimulus.center_x, stimulus.center_y,
                              (0 - time_in_move_phase)
                                  \div GCD(time_in_move_phase, 0 - remaining_time),
                              (0 - remaining_time)
                                  \div GCD(time_in_move_phase, 0 - remaining_time)) ]
            ELSE c
    IN  IF elapsed >= c.focus_time
        THEN [ DeactivateAllStimuli(moved) EXCEPT
                   !.is_in_glow_phase = FALSE,
                   !.is_in_gap_phase = TRUE,
                   !.calibration_start_time = now,
                   !.center_circle = ReturnDotsHome(moved.center_circle) ]
        ELSE moved

\* A mutation of the gap branch: the calibration stays active at the end of
\* the sequence.
GapPhaseStaysActive(c, now) ==
    LET elapsed == now - c.calibration_start_time
        completed_count == c.current_calibration_index + 1
        advanced == [ c EXCEPT !.current_calibration_index = completed_count ]
    IN  IF elapsed >= c.gap_time
        THEN IF completed_count >= Len(c.calibration_sequence)
             THEN UpdateStatus(DeactivateAllStimuli(advanced),
                               Message("Calibration Complete!", "success"))
             ELSE ActivateStimulus(
                      [ advanced EXCEPT !.is_in_glow_phase = TRUE,
                                        !.is_in_gap_phase = FALSE,
                                        !.calibration_start_time = now ],
                      c.calibration_sequence[completed_count + 1])
        ELSE c

\* A mutation of the gap branch: a frame that comes later than a whole focus
\* time after the gap catches up by one more element of the sequence.
GapPhaseCatchingUp(c, now) ==
    LET elapsed == now - c.calibration_start_time
        completed_count == c.current_calibration_index + 1
                           + (IF elapsed >= c.gap_time + c.focus_time THEN 1 ELSE 0)
        advanced == [ c EXCEPT !.current_calibration_index = completed_count ]
    IN  IF elapsed >= c.gap_time
        THEN IF completed_count >= Len(c.calibration_sequence)
             THEN UpdateStatus(
                      [ DeactivateAllStimuli(advanced) EXCEPT
                            !.calibration_active = FALSE,
                            !.timer_visible = FALSE ],
                      Message("Calibration Complete!", "success"))
             ELSE ActivateStimulus(
                      [ advanced EXCEPT !.is_in_glow_phase = TRUE,
                                        !.is_in_gap_phase = FALSE,
                                        !.calibration_start_time = now ],
                      c.calibration_sequence[completed_count + 1])
        ELSE c

\* The gap branch of _update_calibration.
GapPhase(c, now) ==
    LET elapsed == now - c.calibration_start_time
        completed_count == c.current_calibration_index + 1
        round_num == (completed_count \div 8) + 1
        advanced == [ c EXCEPT !.current_calibration_index = completed_count ]
        notified ==
            IF completed_count % 8 = 0
            THEN UpdateStatus(
                     [ advanced EXCEPT !.calibration_completed_rounds = round_num - 1 ],
                     RoundMessage(round_num, c.calibration_rounds))
            ELSE advanced
    IN  IF elapsed >= c.gap_time
        THEN IF completed_count >= Len(c.calibration_sequence)
             THEN UpdateStatus(
                      [ DeactivateAllStimuli(advanced) EXCEPT
                            !.calibration_active = FALSE,
                            !.timer_visible = FALSE ],
                      Message("Calibration Complete!", "success"))
             ELSE ActivateStimulus(
                      [ notified EXCEPT !.is_in_glow_phase = TRUE,
                                        !.is_in_gap_phase = FALSE,
                                        !.calibration_start_time = now ],
                      c.calibration_sequence[completed_count + 1])
        ELSE c

\* BCIController._update_calibration
UpdateCalibration(c, now) ==
    IF c.is_in_glow_phase
    THEN GlowPhase(c, now)
    ELSE IF c.is_in_gap_phase THEN GapPhase(c, now) ELSE c

\* The testing-phase branch of update: the swarm leans toward a cursor that
\* is outside the center circle.
TestingPhase(c) ==
    LET cursor == T3GetCurrentPosition(c)
        dx == cursor[1] - c.center_x
        dy == cursor[2] - c.center_y
    IN  IF Hypot2(dx, dy) > c.center_radius * c.center_radius
        THEN [ c EXCEPT !.center_circle =
                 MoveDotsToward(c.center_circle, cursor[1], cursor[2], 1, 1) ]
        ELSE [ c EXCEPT !.center_circle = ReturnDotsHome(c.center_circle) ]

\* BCIController.update, the object it leaves when the clock reads now.
UpdateObject(c, now) ==
    IF ~c.running
    THEN c
    ELSE LET timed == [ c EXCEPT !.last_time = now ]
         IN  IF c.calibration_active
             THEN IF UpdateCalibrationRaises(c, now)
                  THEN timed
                  ELSE UpdateCalibration(timed, now)
             ELSE IF c.current_phase = PHASE_TESTING
                  THEN TestingPhase(timed)
                  ELSE [ timed EXCEPT
                           !.center_circle = ReturnDotsHome(c.center_circle) ]

\* BCIController.start_animation
StartAnimationObject(c, now) == [ c EXCEPT !.running = TRUE, !.last_time = now ]

(***************************************************************************)
(* The inputs and the operations of the controller                         *)
(***************************************************************************)
\* No frame is taken after this reading of the clock.
MaxCalTime == 5501
\* The calls the user interface makes on the controller in one behaviour.
MaxCommands == 3

\* The pointer at the center and on stimulus circle 1.
T3Pointers == { <<600, 400>>, <<933, 400>> }

\* Frame gaps: one is before the trigger of the glow phase (2.49 s), two
\* are past it, three are past the end of the glow phase (3.0 s).
T3Dts == { 125, 250 }

\* The outcomes of random.shuffle drawn in a calibration run.
CalShuffles == { << 3, 7, 0, 5, 1, 6, 2, 4 >> }

\* The numbers of rounds handed to set_calibration_rounds.
CalRounds == { 0, 1, 2 }

\* The values handed to set_focus_time, set_gap_time and
\* set_calibration_rounds when the configuration is out of range: negative,
\* zero, and options of the dropdowns (focus times of 1 s and 5 s).
ConfigFocusTimes == { 0 - 100, 0, 100, 500 }
ConfigGapTimes == { 0 - 100, 0, 50 }
ConfigRounds == { 0 - 1, 0, 1 }
SeqRounds == { 0, 1, 2, 5 }

\* BCIController.set_input_mode, the object it leaves.  available is what
\* tobii.is_available() answers and subscribes whether subscribe_to returns
\* in start_tracking; tobii_running is TobiiHandler.running, which
\* start_tracking sets after the subscription and stop_tracking clears.
SetInputModeObject(c, mode, available, subscribes) ==
    IF mode = T3_INPUT_MODE_TOBII
    THEN IF available
         THEN UpdateStatus([ c EXCEPT !.input_mode = mode,
                                      !.tobii_running = @ \/ subscribes ],
                           Message("Tobii Active", "success"))
         ELSE UpdateStatus([ c EXCEPT !.input_mode = T3_INPUT_MODE_MOUSE ],
                           Message("Tobii Unavailable - Using Mouse", "error"))
    ELSE UpdateStatus([ c EXCEPT !.input_mode = mode, !.tobii_running = FALSE ],
                      Message("Mouse Active", "info"))

\* BCIController.set_input_mode; the call keeps the mode it was given and
\* returns False only for a tracker that is not available.
T3SetInputMode(mode, available, subscribes) ==
    /\ ctl' = SetInputModeObject(ctl, mode, available, subscribes)
    /\ call' = [ op |-> "set_input_mode",
                 ret |-> IF mode = T3_INPUT_MODE_TOBII /\ ~available
                         THEN "False" ELSE "True",
                 raised |-> FALSE, args |-> << mode >> ]
    /\ UNCHANGED << bci, tick, bci1, tick1, commands, components >>

\* Gaze samples in thousandths of the display area.
T3GazeSamples == { << 500, 500 >>, << 900, 500 >> }

\* BCIController._on_gaze_update, called by the handler while it is running.
T3OnGazeUpdate(sample) ==
    /\ ctl.tobii_running
    /\ ctl' = [ ctl EXCEPT !.gaze_x = TruncDiv(sample[1] * ctl.width, 1000),
                           !.gaze_y = TruncDiv(sample[2] * ctl.height, 1000) ]
    /\ call' = Returned("_on_gaze_update", "None")
    /\ UNCHANGED << bci, tick, bci1, tick1, commands, components >>

\* BCIController.on_mouse_move
T3OnMouseMove(x, y) ==
    /\ commands < MaxCommands
    /\ commands' = commands + 1
    /\ ctl' = [ ctl EXCEPT !.mouse_x = x, !.mouse_y = y ]
    /\ call' = Returned("on_mouse_move", "None")
    /\ UNCHANGED << bci, tick, bci1, tick1, components >>

\* BCIController.set_phase
SetPhase(phase) ==
    /\ commands < MaxCommands
    /\ commands' = commands + 1
    /\ ctl' = SetPhaseObject(ctl, phase)
    /\ call' = Returned("set_phase", "None")
    /\ UNCHANGED << bci, tick, bci1, tick1, components >>

\* BCIController.set_calibration_rounds
SetCalibrationRounds(rounds) ==
    /\ commands < MaxCommands
    /\ commands' = commands + 1
    /\ ctl' = [ ctl EXCEPT !.calibration_rounds = rounds ]
    /\ call' = Returned("set_calibration_rounds", "None")
    /\ UNCHANGED << bci, tick, bci1, tick1, components >>

\* BCIController.set_focus_time
SetFocusTime(time_seconds) ==
    /\ commands < MaxCommands
    /\ commands' = commands + 1
    /\ ctl' = [ ctl EXCEPT !.focus_time = time_seconds ]
    /\ call' = Returned("set_focus_time", "None")
    /\ UNCHANGED << bci, tick, bci1, tick1, components >>

\* BCIController.set_gap_time
SetGapTime(time_seconds) ==
    /\ commands < MaxCommands
    /\ commands' = commands + 1
    /\ ctl' = [ ctl EXCEPT !.gap_time = time_seconds ]
    /\ call' = Returned("set_gap_time", "None")
    /\ UNCHANGED << bci, tick, bci1, tick1, components >>

\* BCIController.start_calibration; blocks are the outcomes of the shuffles
\* and the clock reads what it read at the last frame.
StartCalibration(blocks) ==
    /\ commands < MaxCommands
    /\ commands' = commands + 1
    /\ ctl' = StartCalibrationObject(ctl, blocks, ctl.last_time)
    /\ call' = StartCalibrationCall(ctl, blocks)
    /\ UNCHANGED << bci, tick, bci1, tick1, components >>

\* BCIController.stop_calibration
StopCalibration ==
    /\ commands < MaxCommands
    /\ commands' = commands + 1
    /\ ctl' = StopCalibrationObject(ctl)
    /\ call' = Returned("stop_calibration", "None")
    /\ UNCHANGED << bci, tick, bci1, tick1, components >>

\* BCIController.update, dt after the previous frame
Update(dt) ==
    /\ ctl.last_time + dt <= MaxCalTime
    /\ ctl' = UpdateObject(ctl, ctl.last_time + dt)
    /\ call' = [ op |-> "update", ret |-> "None",
                 raised |-> /\ ctl.running
                            /\ ctl.calibration_active
                            /\ UpdateCalibrationRaises(ctl, ctl.last_time + dt) ]
    /\ UNCHANGED << bci, tick, bci1, tick1, commands, components >>

\* The times between two frames of a calibration run, the longer one above
\* DEFAULT_FOCUS_TIME + DEFAULT_GAP_TIME.
RunDts == { 250, 750 }
\* Positive focus and gap times and rounds that a run is configured with.
RunFocusTimes == { 100 }
RunGapTimes == { 300 }
RunRounds == { 1 }
\* No frame of a controller without a running calibration is started after
\* this reading of the clock; the frames of a running calibration keep coming.
MaxIdleTime == 251

\* BCIController.update, dt after the previous frame, as the Tk loop keeps
\* scheduling it while a calibration runs.
RunUpdate(dt) ==
    /\ ctl.calibration_active \/ ctl.last_time + dt <= MaxIdleTime
    /\ ctl' = UpdateObject(ctl, ctl.last_time + dt)
    /\ call' = [ op |-> "update", ret |-> "None",
                 raised |-> /\ ctl.running
                            /\ ctl.calibration_active
                            /\ UpdateCalibrationRaises(ctl, ctl.last_time + dt) ]
    /\ UNCHANGED << bci, tick, bci1, tick1, commands, components >>

\* The canvas sizes of a <Configure> event on the Task_3 window, two of them
\* not positive.
ResizeSizes == { <<1200, 800>>, <<900, 650>>, <<0, 800>>, <<1200, -1>> }

\* BCIController.resize
Resize(width, height) ==
    /\ ctl' = ResizeObject(ctl, width, height)
    /\ call' = ReturnedFor("resize", "None", width, height)
    /\ UNCHANGED << bci, tick, bci1, tick1, commands, components >>

(***************************************************************************)
(* src/Task_3/code/main.py: BCIApplication, the start/stop button          *)
(***************************************************************************)
START_LABEL == "Start"
STOP_LABEL == "Stop"

\* _create_control_panel: the button is created with the start label and
\* hidden.
InitApplication == start_button = [ text |-> START_LABEL, visible |-> FALSE ]

\* BCIApplication._on_phase_change: the controller changes phase and the
\* button is shown in the calibration phase only.
OnPhaseChange(phase) ==
    /\ commands < MaxCommands
    /\ commands' = commands + 1
    /\ ctl' = SetPhaseObject(ctl, phase)
    /\ start_button' = [ start_button EXCEPT !.visible = (phase = PHASE_CALIBRATION) ]
    /\ call' = Returned("_on_phase_change", "None")
    /\ UNCHANGED << bci, tick, bci1, tick1, swarm, swarm_coherence, swarm_updates,
                    box, box1, gazing >>

\* BCIApplication._on_start_calibration, a click on the visible button: a
\* running calibration is stopped, otherwise one is started and the label
\* changes if start_calibration returns True.
OnStartCalibration(blocks) ==
    /\ start_button.visible
    /\ commands < MaxCommands
    /\ commands' = commands + 1
    /\ IF ctl.calibration_active
       THEN /\ ctl' = StopCalibrationObject(ctl)
            /\ start_button' = [ start_button EXCEPT !.text = START_LABEL ]
            /\ call' = Returned("_on_start_calibration", "None")
       ELSE /\ ctl' = StartCalibrationObject(ctl, blocks, ctl.last_time)
            /\ start_button' =
                   IF StartCalibrationCall(ctl, blocks).ret = "True"
                   THEN [ start_button EXCEPT !.text = STOP_LABEL ]
                   ELSE start_button
            /\ call' = [ op |-> "_on_start_calibration", ret |-> "None",
                         raised |-> StartCalibrationCall(ctl, blocks).raised ]
    /\ UNCHANGED << bci, tick, bci1, tick1, swarm, swarm_coherence, swarm_updates,
                    box, box1, gazing >>

\* The controller as BCIApplication.__init__ leaves it: constructed, the
\* animation started, a first frame taken and the testing phase set.
InitController ==
    ctl = SetPhaseObject(
              UpdateObject(StartAnimationObject(T3Constructed(StartTime), StartTime),
                           StartTime),
              PHASE_TESTING)

(***************************************************************************)
(* The components called directly: a CrowdDots and the two StimulusBoxes   *)
(***************************************************************************)
\* Where set_target is pointed: the center, a point to the right and one
\* above the circle.
SwarmTargets == { << CENTER_X, CENTER_Y >>, << 880, 350 >>, << 600, 110 >> }

\* The dt of CrowdDots.update: none, a frame at 60 Hz, a late frame.
SwarmDts == { 0, 2, 16 }

\* The swarm takes no update() after this many.
MaxSwarmUpdates == 5

\* The dt of StimulusBox.update of src/ui_components.py
BoxDts == { 0, 100 }

\* The hover thresholds passed to it: negative, zero and two dwell times.
BoxThresholds == { 0 - 100, 0, 200, 400 }

\* The coherence passed to StimulusBox.update: what CrowdDots.update
\* returns lies in [0, 1].
BoxCoherences == { 0, 1000 }

\* CrowdDots.set_target on the swarm; the call keeps its arguments.
SwarmSetTarget(x, y, is_moving) ==
    /\ swarm' = SetTarget(swarm, x, y, is_moving)
    /\ call' = [ op |-> "set_target", ret |-> "None", raised |-> FALSE,
                 args |-> << x, y, is_moving >> ]
    /\ UNCHANGED << bci, tick, bci1, tick1, ctl, commands, swarm_coherence, swarm_updates,
                    box, box1, start_button, gazing >>

\* CrowdDots.update on the swarm; swarm_coherence receives what it returns.
SwarmUpdate(dt) ==
    /\ swarm_updates < MaxSwarmUpdates
    /\ swarm_updates' = swarm_updates + 1
    /\ swarm' = UpdateDots(swarm, dt)
    /\ swarm_coherence' = UpdateCoherence(swarm, dt)
    /\ call' = Returned("update", "None")
    /\ UNCHANGED << bci, tick, bci1, tick1, ctl, commands, box, box1, start_button, gazing >>

\* StimulusBox.update with the same arguments on a box of src/ui_components.py
\* and on a box of Task_1, which takes the first three.
BoxUpdate(c, active, neuro, dt, hover_threshold) ==
    /\ box' = [ progress |-> StimulusBoxUpdate(box.progress, active, dt, hover_threshold),
                active |-> active ]
    /\ box1' = [ progress |-> StimulusBoxUpdate1(box1.progress, c, active, neuro),
                 active |-> active ]
    /\ call' = Returned("update", "None")
    /\ UNCHANGED << bci, tick, bci1, tick1, ctl, commands, swarm, swarm_coherence,
                    swarm_updates, gazing, start_button >>

\* The components as constructed; active is the argument of the latest
\* update of a box.
InitComponents ==
    /\ swarm = NewCrowdDots(CENTER_X, CENTER_Y, CIRCLE_RADIUS)
    /\ swarm_coherence = None
    /\ swarm_updates = 0
    /\ box = [ progress |-> 0, active |-> FALSE ]
    /\ box1 = [ progress |-> 0, active |-> FALSE ]

(***************************************************************************)
(* Specifications                                                          *)
(***************************************************************************)
Init ==
    /\ InitInterfaces
    /\ InitController
    /\ InitComponents
    /\ InitGazing
    /\ InitApplication
    /\ commands = 0
    /\ call = Returned("__init__", "None")

\* Focus resolution: the cursor moves, the window is resized, and the neuro
\* trigger resolves the focused box.
NextFocus ==
    \/ \E p \in Pointers : OnMouseMove(p[1], p[2])
    \/ \E sz \in LayoutSizes : UpdateLayout(sz[1], sz[2])
    \/ OnNeuroTrigger

SpecFocus == Init /\ [][NextFocus]_vars

\* The dwell state machine: the cursor moves between ticks of animate().
NextDwell ==
    \/ \E p \in DwellPointers : OnMouseMove(p[1], p[2])
    \/ \E dt \in Dts : Animate(dt)

SpecDwell == Init /\ [][NextDwell]_vars

\* Whole frames: the cursor moves between ticks of animate(), which updates
\* the dwell state, the swarm and the boxes.
NextFrame ==
    \/ \E p \in DwellPointers : OnMouseMove(p[1], p[2])
    \/ \E dt \in FrameDts : AnimateFrame(dt)

SpecFrame == Init /\ [][NextFrame]_vars

\* Sequence generation: rounds are chosen and calibration is started.
NextSeq ==
    \/ \E r \in SeqRounds : SetCalibrationRounds(r)
    \/ \E ph \in PHASES : SetPhase(ph)
    \/ \E blocks \in [1 .. Max(ctl.calibration_rounds, 0) -> Shuffles] :
           StartCalibration(blocks)

SpecSeq == Init /\ [][NextSeq]_vars

\* The calibration controller: phases, rounds, start, stop, pointer and frames.
NextCal ==
    \/ \E r \in CalRounds : SetCalibrationRounds(r)
    \/ \E ph \in PHASES : SetPhase(ph)
    \/ \E blocks \in [1 .. Max(ctl.calibration_rounds, 0) -> CalShuffles] :
           StartCalibration(blocks)
    \/ StopCalibration
    \/ \E p \in T3Pointers : T3OnMouseMove(p[1], p[2])
    \/ \E dt \in T3Dts : Update(dt)

SpecCal == Init /\ [][NextCal]_vars

\* The rounds a run is shortened to, so that it can end within MaxCalTime.
GlowRounds == { 1 }
\* The canvas size of the <Configure> events during a run.
GlowSizes == { <<900, 650>> }
\* The times between two frames of such a run: DEFAULT_GAP_TIME and
\* DEFAULT_FOCUS_TIME, so that a run of one round ends within MaxCalTime.
GlowDts == { 200, 300 }

\* Calibration runs that are started, restarted, stopped, left by a change
\* of phase and resized between frames.
NextGlow ==
    \/ \E r \in GlowRounds : SetCalibrationRounds(r)
    \/ \E ph \in PHASES : SetPhase(ph)
    \/ \E blocks \in [1 .. Max(ctl.calibration_rounds, 0) -> CalShuffles] :
           StartCalibration(blocks)
    \/ StopCalibration
    \/ \E sz \in GlowSizes : Resize(sz[1], sz[2])
    \/ \E dt \in GlowDts : Update(dt)

SpecGlow == Init /\ [][NextGlow]_vars

\* Whole frames with a dwell time that is changed between them.
NextThreshold ==
    \/ \E p \in DwellPointers : OnMouseMove(p[1], p[2])
    \/ \E th \in HoverThresholds : SetHoverThreshold(th)
    \/ \E dt \in FrameDts : AnimateFrame(dt)

SpecThreshold == Init /\ [][NextThreshold]_vars

\* The Task_3 application: the rounds and phase dropdowns, clicks on the
\* start/stop button and the frames of _animate.
NextApp ==
    \/ \E r \in GlowRounds : SetCalibrationRounds(r)
    \/ \E ph \in PHASES : OnPhaseChange(ph)
    \/ \E blocks \in [1 .. Max(ctl.calibration_rounds, 0) -> CalShuffles] :
           OnStartCalibration(blocks)
    \/ \E dt \in GlowDts : Update(dt)

SpecApp == Init /\ [][NextApp]_vars

\* The input mode of the Task_3 controller: mode changes with an available
\* or absent tracker and a subscription that succeeds or fails, gaze
\* callbacks, pointer moves and frames.
NextTobii ==
    \/ \E mode \in { T3_INPUT_MODE_MOUSE, T3_INPUT_MODE_TOBII },
          available \in BOOLEAN, subscribes \in BOOLEAN :
           T3SetInputMode(mode, available, subscribes)
    \/ \E s \in T3GazeSamples : T3OnGazeUpdate(s)
    \/ \E p \in T3Pointers : T3OnMouseMove(p[1], p[2])
    \/ \E dt \in GlowDts : Update(dt)

SpecTobii == Init /\ [][NextTobii]_vars

\* The readings of the clock at which the interfaces are constructed when
\* the clock may start at 0.
EpochStartTimes == { 0, StartTime }

\* The interfaces constructed at clock reading now, after the first
\* animate() of __init__.
InitInterfacesAt(now) ==
    /\ bci = AnimateObject(Constructed(now), now)
    /\ tick = AnimateLocals(Constructed(now), now)
    /\ bci1 = AnimateObject1(Constructed(now), now)
    /\ tick1 = AnimateLocals1(Constructed(now), now)

InitEpoch ==
    /\ \E now \in EpochStartTimes : InitInterfacesAt(now)
    /\ InitController
    /\ InitComponents
    /\ InitGazing
    /\ InitApplication
    /\ commands = 0
    /\ call = Returned("__init__", "None")

\* The dwell state machines of the two interfaces fed the same pointer and
\* clock, the clock starting at 0 or later.
SpecEpoch == InitEpoch /\ [][NextDwell]_vars

\* Eye-tracker mode: the statements of the gaze callback interleave with the
\* statements of animate().
NextGaze ==
    \/ \E mode \in { INPUT_MODE_MOUSE, INPUT_MODE_TOBII }, available \in BOOLEAN :
           SetInputMode(mode, available)
    \/ \E s \in GazeSamples : GazeWriteX(s)
    \/ GazeWriteY
    \/ \E dt \in GazeDts : AnimateSample(dt)
    \/ AnimateResolve
    \/ AnimateFinish

SpecGaze == Init /\ [][NextGaze]_vars

\* The first calibration run of a controller, which nothing interrupts: the
\* controller is configured with positive times and rounds and the phase is
\* set while no run is active, the run is started, and the Tk loop keeps
\* delivering frames.
NextRun ==
    \/ ~ctl.calibration_active /\ \E t \in RunFocusTimes : SetFocusTime(t)
    \/ ~ctl.calibration_active /\ \E t \in RunGapTimes : SetGapTime(t)
    \/ ~ctl.calibration_active /\ \E r \in RunRounds : SetCalibrationRounds(r)
    \/ ~ctl.calibration_active /\ SetPhase(PHASE_CALIBRATION)
    \/ /\ ctl.calibration_sequence = << >>
       /\ \E blocks \in [1 .. Max(ctl.calibration_rounds, 0) -> CalShuffles] :
              StartCalibration(blocks)
    \/ \E dt \in RunDts : RunUpdate(dt)

SpecRun == Init /\ [][NextRun]_vars /\ WF_vars(\E dt \in RunDts : RunUpdate(dt))

\* Configuration: times and rounds are set, in range or not, a calibration is
\* started in the calibration phase and frames follow.
NextConfig ==
    \/ \E t \in ConfigFocusTimes : SetFocusTime(t)
    \/ \E t \in ConfigGapTimes : SetGapTime(t)
    \/ \E r \in ConfigRounds : SetCalibrationRounds(r)
    \/ SetPhase(PHASE_CALIBRATION)
    \/ \E blocks \in [1 .. Max(ctl.calibration_rounds, 0) -> CalShuffles] :
           StartCalibration(blocks)
    \/ \E dt \in T3Dts : Update(dt)

SpecConfig == Init /\ [][NextConfig]_vars

\* Window resizes: <Configure> events reach the interfaces and the
\* controller.
NextResize ==
    \/ \E sz \in LayoutSizes : UpdateLayout(sz[1], sz[2])
    \/ \E sz \in ResizeSizes : Resize(sz[1], sz[2])

SpecResize == Init /\ [][NextResize]_vars

\* A swarm driven by set_target and update calls.
NextSwarm ==
    \/ \E p \in SwarmTargets, m \in BOOLEAN : SwarmSetTarget(p[1], p[2], m)
    \/ \E dt \in SwarmDts : SwarmUpdate(dt)

SpecSwarm == Init /\ [][NextSwarm]_vars

\* The points handed to set_target when it is called alone: far from the
\* center, and around the distance of 10 from it.
TargetXs == { 320, 460, 590, 592, 594, 600, 606, 608, 610, 611, 740, 880 }
TargetYs == { 110, 230, 340, 342, 344, 350, 356, 358, 360, 361, 470, 590 }

\* A swarm whose targets are set again and again.
NextTarget ==
    \E x \in TargetXs, y \in TargetYs, m \in BOOLEAN : SwarmSetTarget(x, y, m)

SpecTarget == Init /\ [][NextTarget]_vars

\* Two stimulus boxes driven by update calls.
NextBox ==
    \E c \in BoxCoherences, active \in BOOLEAN, neuro \in BOOLEAN,
       dt \in BoxDts, thr \in BoxThresholds : BoxUpdate(c, active, neuro, dt, thr)

SpecBox == Init /\ [][NextBox]_vars

(***************************************************************************)
(* Focus resolution (SpecFocus)                                            *)
(***************************************************************************)
\* The cursor of interface b is nearer the center than 0.7 * circle_radius.
WithinNeutralRadius(b) ==
    100 * ((b.mouse_x - b.center_x) * (b.mouse_x - b.center_x)
           + (b.mouse_y - b.center_y) * (b.mouse_y - b.center_y))
        < 49 * b.circle_radius * b.circle_radius

\* The squared distance from the cursor of b to the center of box j.
CursorToBox2(b, j) ==
    (b.mouse_x - b.boxes[j][1]) * (b.mouse_x - b.boxes[j][1])
    + (b.mouse_y - b.boxes[j][2]) * (b.mouse_y - b.boxes[j][2])

Resolved == call.op = "on_neuro_trigger"

\* C1: get_closest_box returns None for every cursor position nearer the
\* circle center than the neutral radius 0.7 * circle_radius, whatever layout
\* the boxes have.
C1_NeutralZoneIsNone ==
    Resolved =>
        /\ WithinNeutralRadius(bci) => bci.neuro_active_box = None
        /\ WithinNeutralRadius(bci1) => bci1.neuro_active_box = None

\* A cursor off the center but within the neutral zone of a resized layout
\* has been resolved.
C1_Witness ==
    /\ Resolved
    /\ WithinNeutralRadius(bci)
    /\ << bci.mouse_x, bci.mouse_y >> # << bci.center_x, bci.center_y >>
    /\ bci.width # WINDOW_WIDTH
    /\ bci.neuro_active_box = None

\* Box k is one of the nearest to the cursor of b, and the first of them.
FirstNearest(b, k) ==
    /\ k \in BoxLabels
    /\ \A j \in BoxLabels : CursorToBox2(b, k) <= CursorToBox2(b, j)
    /\ \A j \in BoxLabels : CursorToBox2(b, j) = CursorToBox2(b, k) => k <= j

\* C2: for every cursor position outside the neutral zone get_closest_box
\* returns a box of minimal distance to the cursor, and of several such boxes
\* the one with the lowest label.
C2_NearestBoxFirstWins ==
    Resolved =>
        /\ ~WithinNeutralRadius(bci) => FirstNearest(bci, bci.neuro_active_box)
        /\ ~WithinNeutralRadius(bci1) => FirstNearest(bci1, bci1.neuro_active_box)

\* A cursor as far from the resolved box as from another box has been
\* resolved.
C2_Witness ==
    /\ Resolved
    /\ ~WithinNeutralRadius(bci)
    /\ bci.neuro_active_box \in BoxLabels
    /\ \E j \in BoxLabels :
          /\ j # bci.neuro_active_box
          /\ CursorToBox2(bci, j) = CursorToBox2(bci, bci.neuro_active_box)

(***************************************************************************)
(* The dwell state machine (SpecDwell)                                     *)
(***************************************************************************)
\* The step is a tick of animate().
TickStep == call'.op = "animate"

\* What C3 says of one tick of an interface: b before, b2 and its locals t2
\* after.
DwellFlagStep(b, b2, t2) ==
    /\ (b.is_hovering_long_enough /\ t2.closest_box = b.active_box)
          => b2.is_hovering_long_enough
    /\ t2.closest_box # b.active_box => ~b2.is_hovering_long_enough

\* C3: once is_hovering_long_enough is true for a box it stays true on every
\* later tick that resolves the same box, and it is false at the end of every
\* tick whose resolved box differs from the active box of the tick before
\* (a change to or from None included).
C3_HeldUntilFocusChanges ==
    [][ TickStep => /\ DwellFlagStep(bci, bci', tick')
                    /\ DwellFlagStep(bci1, bci1', tick1') ]_vars

\* A second tick at the same reading of the clock finds the box still held.
C3_Witness ==
    /\ call.op = "animate"
    /\ tick.dt = 0
    /\ tick.closest_box = bci.active_box
    /\ bci.is_hovering_long_enough
    /\ bci1.is_hovering_long_enough

\* What C4 says of an interface b whose last tick read the clock at now.
HeldExactlyFromThreshold(b, now) ==
    b.is_hovering_long_enough
        <=> (b.active_box # None /\ now - b.hover_start_time >= b.hover_threshold)

\* C4: with a constant positive hover threshold and non-decreasing
\* timestamps, after every tick is_hovering_long_enough is true exactly when
\* active_box is not None and now - hover_start_time >= hover_threshold.
C4_HeldExactlyFromThreshold ==
    /\ HeldExactlyFromThreshold(bci, tick.now)
    /\ HeldExactlyFromThreshold(bci1, tick1.now)

\* A box is reported held at the very tick that completes the threshold.
C4_Witness ==
    /\ call.op = "animate"
    /\ bci.is_hovering_long_enough
    /\ bci.hover_threshold > 0
    /\ tick.now - bci.hover_start_time = bci.hover_threshold

\* What C5 says of one tick of an interface that leaves no box focused: t0 is
\* the reading of the tick that lost the focus, kept while no box is focused.
GraceStep(b, b2, t2) ==
    b2.active_box = None =>
        /\ b2.lost_focus_time =
              IF b.active_box # None THEN t2.now ELSE b.lost_focus_time
        /\ t2.should_move_dots <=> (t2.now - b2.lost_focus_time < RETURN_DELAY)

\* C5: when focus is lost at t0 and no box is focused again, should_move_dots
\* is true on every tick with now - t0 < return_delay and false on every tick
\* with now - t0 >= return_delay (true at t0 + 0.29 s, false at t0 + 0.31 s).
C5_GraceUntilReturnDelay ==
    [][ TickStep => /\ GraceStep(bci, bci', tick')
                    /\ GraceStep(bci1, bci1', tick1') ]_vars

\* 0.31 s after a box lost the focus, should_move_dots is false.
C5_Witness ==
    /\ call.op = "animate"
    /\ bci.active_box = None
    /\ bci.lost_focus_time > StartTime
    /\ tick.now - bci.lost_focus_time = 31
    /\ ~tick.should_move_dots

\* C6: after a box has been held and the focus is lost at t0, the dots keep
\* their displaced targets on every tick with now - t0 < return_delay
\* (set_target is called with is_moving true) and are sent home only on ticks
\* with now - t0 >= return_delay.
C6_SwarmKeepsTargetInGrace ==
    [][ ( /\ TickStep
          /\ ~DotsAtHome(bci.dots)
          /\ bci'.active_box = None
          /\ tick'.now - bci'.lost_focus_time < RETURN_DELAY )
        => (tick'.is_moving /\ ~DotsAtHome(bci'.dots)) ]_vars

(***************************************************************************)
(* The calibration sequence (SpecSeq)                                      *)
(***************************************************************************)
\* start_calibration has just generated a sequence (it got past the phase
\* check), for the calibration_rounds the controller still holds.
SequenceGenerated == call.op = "start_calibration" /\ call.ret # "False"

\* The elements of round r of the sequence, r = 1, 2, ...
BlockOf(seq, r) == { seq[8 * (r - 1) + j] : j \in 1 .. 8 }

\* The numbers of the circles that round r of the sequence activates.
NumbersOf(c, r) ==
    { c.stimulus_circles[k + 1].number : k \in BlockOf(c.calibration_sequence, r) }

\* C7 as written: for every number of rounds R the generated sequence has
\* length 8 * R and every aligned block of 8 elements is a permutation of the
\* target ids 1..8; for R = 5 the length is 40.
C7_BlocksArePermutationsOfIds ==
    SequenceGenerated =>
        /\ Len(ctl.calibration_sequence) = 8 * ctl.calibration_rounds
        /\ \A r \in 1 .. ctl.calibration_rounds :
               BlockOf(ctl.calibration_sequence, r) = 1 .. 8
        /\ ctl.calibration_rounds = 5 => Len(ctl.calibration_sequence) = 40

\* C7 as the code has it: for every number of rounds R >= 0 the generated
\* sequence has length 8 * R and every aligned block of 8 elements is a
\* permutation of the circle indices 0..7, so each circle number 1..8 is
\* activated exactly once per round; for R = 5 the length is 40.
C7_BlocksArePermutationsOfIndices ==
    SequenceGenerated =>
        /\ Len(ctl.calibration_sequence) = 8 * ctl.calibration_rounds
        /\ \A r \in 1 .. ctl.calibration_rounds :
               /\ BlockOf(ctl.calibration_sequence, r) = 0 .. 7
               /\ NumbersOf(ctl, r) = 1 .. 8
        /\ ctl.calibration_rounds = 5 => Len(ctl.calibration_sequence) = 40

\* Five rounds were generated, the last of them not in index order.
C7_Witness ==
    /\ SequenceGenerated
    /\ ctl.calibration_rounds = 5
    /\ Len(ctl.calibration_sequence) = 40
    /\ ctl.calibration_sequence[33] = 3

(***************************************************************************)
(* The calibration run (SpecCal)                                           *)
(***************************************************************************)
\* A frame in the gap phase of a run advances current_calibration_index past
\* the last element of the sequence.
CompletionStep ==
    /\ call'.op = "update"
    /\ ctl.calibration_active
    /\ ctl.is_in_gap_phase
    /\ ~ctl.is_in_glow_phase
    /\ ctl'.current_calibration_index = ctl.current_calibration_index + 1
    /\ ctl'.current_calibration_index > Len(ctl.calibration_sequence) - 1

\* A frame of a controller whose calibration is not active.
IdleFrame == call'.op = "update" /\ ~ctl.calibration_active

CompletedOnce ==
    /\ CompletionStep =>
           /\ ~ctl'.calibration_active
           /\ ctl'.status.text = "Calibration Complete!"
           /\ ctl'.completions = 1
    /\ IdleFrame =>
           /\ ~ctl'.calibration_active
           /\ ctl'.completions = ctl.completions
    /\ ctl'.completions <= 1

\* C8: when a frame in the gap phase advances current_calibration_index past
\* len(calibration_sequence) - 1 the calibration becomes inactive and the
\* 'Calibration Complete' status is emitted, once for the run: no later
\* frame emits it again or reactivates the calibration.
C8_CompletionEmittedOnce == [][CompletedOnce]_vars

\* A run has completed and a further frame followed the completing one.
C8_Witness ==
    /\ call.op = "update"
    /\ ~ctl.calibration_active
    /\ ctl.completions = 1
    /\ ctl.current_calibration_index = Len(ctl.calibration_sequence)
    /\ ctl.last_time - ctl.calibration_start_time >= 3 * 125

\* No stimulus circle of the controller glows.
NoGlow(c) == \A i \in DOMAIN c.stimulus_circles : ~c.stimulus_circles[i].is_glowing

\* C9: from any reachable state, stop_calibration leaves a state that a
\* second stop_calibration does not change, and in it the calibration is
\* inactive, no stimulus circle glows and every dot's target is its home.
C9_StopIsIdempotentAndHome ==
    call.op = "stop_calibration" =>
        /\ StopCalibrationObject(ctl) = ctl
        /\ ~ctl.calibration_active
        /\ NoGlow(ctl)
        /\ AllDotsHome(ctl.center_circle)

\* The fields of the controller that calibration works on.
CalibrationFields(c) ==
    << c.calibration_active, c.calibration_sequence, c.current_calibration_index,
       c.calibration_start_time, c.calibration_session_start,
       c.calibration_completed_rounds, c.is_in_glow_phase, c.is_in_gap_phase,
       c.timer_visible, c.stimulus_circles, c.center_circle >>

RejectedOutsidePhase ==
    (call'.op = "start_calibration" /\ ctl.current_phase # PHASE_CALIBRATION) =>
        /\ call'.ret = "False"
        /\ ~call'.raised
        /\ CalibrationFields(ctl') = CalibrationFields(ctl)

\* C10: start_calibration called while current_phase is not the calibration
\* phase returns False, raises nothing and leaves every calibration field
\* (active flag, sequence, index, phase flags, timers, glow of the circles,
\* dot targets) as it was.
C10_StartRejectedOutsidePhase == [][RejectedOutsidePhase]_vars

\* start_calibration was rejected in another phase, while the swarm was
\* displaced toward the pointer.
C10_Witness ==
    /\ call.op = "start_calibration"
    /\ call.ret = "False"
    /\ ctl.current_phase # PHASE_CALIBRATION
    /\ ~AllDotsHome(ctl.center_circle)

\* C11: at the moment stop_calibration or set_phase returns, from any
\* reachable state and before any further frame, the calibration is inactive,
\* no stimulus circle glows and every dot's target is its home position.
C11_CancelResetsSynchronously ==
    call.op \in { "stop_calibration", "set_phase" } =>
        /\ ~ctl.calibration_active
        /\ NoGlow(ctl)
        /\ AllDotsHome(ctl.center_circle)

(***************************************************************************)
(* The progress of a stimulus box (SpecBox)                                *)
(***************************************************************************)
\* What one update call does to the progress of box b, in thousandths of a
\* percent: it stays in [0, 100], does not fall when active was passed as
\* true and does not rise when it was passed as false.
ProgressLaw(b, after) ==
    /\ after.progress >= 0
    /\ after.progress <= 100000
    /\ after.active => after.progress >= b.progress
    /\ ~after.active => after.progress <= b.progress

BoxProgressLaw == ProgressLaw(box, box') /\ ProgressLaw(box1, box1')

\* C12: for every sequence of StimulusBox.update calls with dt >= 0 (any
\* hover threshold, the coherence in [0, 1]), the progress of the box stays
\* within [0, 100], never decreases on a call with active true and never
\* increases on a call with active false; for the box of src/ui_components.py
\* and for the box of Task_1.
C12_ProgressBoundedAndMonotone == [][BoxProgressLaw]_vars

\* An active call has filled the box of src/ui_components.py to 100 while
\* the box of Task_1, given the same calls, is partly filled.
C12_Witness ==
    /\ call.op = "update"
    /\ box.active
    /\ box.progress = 100000
    /\ box1.progress > 0
    /\ box1.progress < 100000

(***************************************************************************)
(* The coherence of the swarm (SpecSwarm)                                  *)
(***************************************************************************)
\* The swarm takes an update() call in this step.
SwarmUpdateStep == swarm_updates' = swarm_updates + 1

\* Every dot of d has zero velocity and its target is its home position.
AtRestTargetHome(d) ==
    /\ \A i \in DotIds : d.velocities[i] = << 0, 0 >>
    /\ DotsAtHome(d)

\* ... and the dot is at that position, as in a newly constructed swarm.
AtRestAtHome(d) ==
    /\ AtRestTargetHome(d)
    /\ \A i \in DotIds : d.positions[i] = d.home_positions[i]

\* update() returns a coherence in [0, 1], in thousandths.
CoherenceInRange == swarm_coherence' >= 0 /\ swarm_coherence' <= 1000

\* C13 as written: for every sequence of set_target and update calls,
\* update returns a coherence in [0, 1], and returns exactly 0 when every dot
\* has zero velocity and its target equals its home position.
C13_RestReturnsZero ==
    [][SwarmUpdateStep =>
          /\ CoherenceInRange
          /\ AtRestTargetHome(swarm) => swarm_coherence' = 0]_vars

\* C13 as the code has it: for every sequence of set_target and update
\* calls, update returns a coherence in [0, 1], and returns exactly 0 when
\* every dot has zero velocity, its target equals its home position and the
\* dot is at that position.
C13_RestAtHomeReturnsZero ==
    [][SwarmUpdateStep =>
          /\ CoherenceInRange
          /\ AtRestAtHome(swarm) => swarm_coherence' = 0]_vars

\* A swarm at rest at home has taken three updates and the last returned 0.
C13_Witness ==
    /\ call.op = "update"
    /\ swarm_updates >= 3
    /\ AtRestAtHome(swarm)
    /\ swarm_coherence = 0

(***************************************************************************)
(* The dwell state after a tick (SpecDwell)                                *)
(***************************************************************************)
\* The dwell fields of interface b agree: no box is focused exactly when no
\* hover has started, and the hold flag needs a focused box.
DwellFieldsAgree(b) ==
    /\ (b.active_box = None) <=> (b.hover_start_time = None)
    /\ b.is_hovering_long_enough => b.active_box # None

\* A tick leaves the fields in agreement, and a flag that stays true stays
\* with the box it was raised for.
DwellLaw(b, after) ==
    /\ DwellFieldsAgree(after)
    /\ (b.is_hovering_long_enough /\ after.is_hovering_long_enough)
           => after.active_box = b.active_box

\* C14: after every tick of animate, active_box is None exactly when
\* hover_start_time is None, and is_hovering_long_enough is true only if
\* active_box is not None and is the box that was focused when the flag
\* became true; in Task_2 and in Task_1.
C14_DwellFieldsConsistent == [][DwellLaw(bci, bci') /\ DwellLaw(bci1, bci1')]_vars

\* A tick raised the flag for box 2, focused after the first tick, in both
\* interfaces.
C14_Witness ==
    /\ call.op = "animate"
    /\ bci.is_hovering_long_enough
    /\ bci.active_box = 2
    /\ bci.hover_start_time > StartTime
    /\ bci.last_time - bci.hover_start_time >= bci.hover_threshold
    /\ bci1.is_hovering_long_enough
    /\ bci1.active_box = 2

(***************************************************************************)
(* Resizing (SpecResize)                                                   *)
(***************************************************************************)
\* The geometry of an interface: size, center, circle radius, the positions
\* of the boxes and the home positions of the dots.
LayoutOf(b) ==
    << b.width, b.height, b.center_x, b.center_y, b.circle_radius, b.boxes,
       b.dots.home_positions >>

\* The geometry of the controller: size, center, circle radius, the positions
\* of the stimulus circles and the home positions of the dots.
GeometryOf(c) ==
    << c.width, c.height, c.center_x, c.center_y, c.center_radius,
       [i \in DOMAIN c.stimulus_circles |->
           << c.stimulus_circles[i].center_x, c.stimulus_circles[i].center_y >>],
       [i \in T3DotIds |->
           << c.center_circle.dots[i].home_x, c.center_circle.dots[i].home_y >>] >>

\* The call that just returned was a resize to a width or height <= 0.
NonPositiveResize(c) ==
    /\ c.op \in { "update_layout", "resize" }
    /\ (c.args[1] <= 0 \/ c.args[2] <= 0)

\* C15: a resize request with width <= 0 or height <= 0 is rejected with no
\* state mutation: update_layout (Task_1, Task_2) and BCIController.resize
\* (Task_3) leave width, height, center, circle radius, target positions and
\* dot home positions unchanged.
C15_NonPositiveResizeRejected ==
    [][NonPositiveResize(call') =>
          /\ LayoutOf(bci') = LayoutOf(bci)
          /\ LayoutOf(bci1') = LayoutOf(bci1)
          /\ GeometryOf(ctl') = GeometryOf(ctl)]_vars

(***************************************************************************)
(* Out-of-range configuration (SpecConfig)                                 *)
(***************************************************************************)
\* C16: out-of-range configuration never produces a division by zero or any
\* other raised error: for every focus time, gap time and round count set
\* through set_focus_time, set_gap_time and set_calibration_rounds (zero and
\* negative included), start_calibration and every update tick after it
\* return without raising.
C16_NoTickRaises ==
    call.op \in { "start_calibration", "update" } => ~call.raised

(***************************************************************************)
(* The order of the steps of a frame (SpecFrame)                           *)
(***************************************************************************)
\* The dots of interface b with the targets that the dwell state of the
\* interface after the tick decides, moving being its should_move_dots.
DecidedTargets(b, after, locals, moving) ==
    IF moving /\ after.active_box # None
    THEN SetTarget(b.dots, locals.cursor_x, locals.cursor_y, TRUE)
    ELSE SetTarget(b.dots, b.center_x, b.center_y, FALSE)

\* One tick from b to after with the given locals: the focus is resolved at
\* the pointer sampled in the tick, the dots integrate the targets decided
\* from the dwell state of this tick, the coherence is what that integration
\* returns, and the boxes are updated after it with the focus of this tick.
FrameOrder(b, after, locals, sampled, moving) ==
    /\ << locals.cursor_x, locals.cursor_y >> = sampled
    /\ locals.closest_box = ClosestBoxAt(b, sampled[1], sampled[2])
    /\ after.active_box = locals.closest_box
    /\ after.dots = UpdateDots(DecidedTargets(b, after, locals, moving), locals.dt)
    /\ locals.coherence = UpdateCoherence(DecidedTargets(b, after, locals, moving),
                                          locals.dt)
    /\ after.progress = [i \in BoxLabels |->
           StimulusBoxUpdate(b.progress[i], i = after.active_box, locals.dt,
                             b.hover_threshold)]

\* C17: within one animate tick the steps run in the order pointer sample,
\* focus resolution, dwell-state update, swarm target assignment, physics
\* integration, box progress update: the target that dots.update integrates
\* is the one decided from the dwell state as updated in that tick, and the
\* boxes are updated with the coherence returned in that tick.
C17_FrameStepsInOrder ==
    [][call'.op = "animate" =>
          /\ FrameOrder(bci, bci', tick', GetCurrentPosition(bci),
                        ShouldMoveDots(bci', bci'.last_time))
          /\ FrameOrder(bci1, bci1', tick1', << bci1.mouse_x, bci1.mouse_y >>,
                        ShouldMoveDots1(bci1', bci1'.last_time))]_vars

\* The tick in which the hold threshold was reached has already moved the
\* dots toward the box and returned a positive coherence.
C17_Witness ==
    /\ call.op = "animate"
    /\ bci.is_hovering_long_enough
    /\ bci.last_time - bci.hover_start_time = bci.hover_threshold
    /\ ~DotsAtHome(bci.dots)
    /\ bci.dots.positions # bci.dots.home_positions
    /\ tick.coherence > 0
    /\ bci.progress[bci.active_box] = 100000

(***************************************************************************)
(* The pointer position within a tick in eye-tracker mode (SpecGaze)       *)
(***************************************************************************)
\* The pixels of whole gaze samples, and the gaze position of a new
\* interface.
WholeSamples(b) ==
    { GazePixel(b, s) : s \in GazeSamples } \cup { << CENTER_X, CENTER_Y >> }

\* C18: in eye-tracker mode, when a gaze callback interleaves at any point
\* with a tick of animate, the position used for focus resolution inside
\* get_closest_box equals the (cursor_x, cursor_y) passed to dots.set_target
\* in that tick, and its x and y come from the same gaze sample.
C18_OnePositionPerTick ==
    (/\ call.op = "animate"
     /\ gazing.animate_pc = "idle"
     /\ bci.current_input_mode = INPUT_MODE_TOBII)
        => /\ gazing.focus_at = gazing.cursor
           /\ gazing.focus_at \in WholeSamples(bci)

(***************************************************************************)
(* The calibration run to its end (SpecRun)                                *)
(***************************************************************************)
\* The 0-based indices of the stimulus circles that glow.
Glowing(c) == { i - 1 : i \in { j \in DOMAIN c.stimulus_circles :
                                    c.stimulus_circles[j].is_glowing } }

\* A step of a run activates the glow of the elements of the sequence in
\* order: start_calibration lights element 0, and a frame lights a circle
\* only when none glowed, the circle being the next element of the sequence;
\* the index never moves by more than one, and the run ends at the end of
\* the sequence.
GlowInOrder ==
    /\ (call'.op = "start_calibration" /\ call'.ret = "True") =>
           /\ ctl'.current_calibration_index = 0
           /\ Glowing(ctl') = { ctl'.calibration_sequence[1] }
    /\ (call'.op = "update" /\ ctl.calibration_active) =>
           /\ ctl'.calibration_sequence = ctl.calibration_sequence
           /\ ctl'.current_calibration_index \in
                  { ctl.current_calibration_index, ctl.current_calibration_index + 1 }
           /\ Glowing(ctl') \notin { Glowing(ctl), {} } =>
                  /\ Glowing(ctl) = {}
                  /\ ctl'.current_calibration_index = ctl.current_calibration_index + 1
                  /\ Glowing(ctl') =
                         { ctl.calibration_sequence[ctl'.current_calibration_index + 1] }
           /\ (ctl'.current_calibration_index = ctl.current_calibration_index + 1
                   /\ ctl'.calibration_active) =>
                  Glowing(ctl') =
                      { ctl.calibration_sequence[ctl'.current_calibration_index + 1] }
           /\ ~ctl'.calibration_active =>
                  ctl'.current_calibration_index = Len(ctl.calibration_sequence)

\* The run has come to its end.
RunCompleted ==
    /\ ~ctl.calibration_active
    /\ ctl.completions = 1
    /\ ctl.current_calibration_index = Len(ctl.calibration_sequence)

\* C19: a calibration started with R >= 1 rounds and positive focus and gap
\* times, driven by frames whose timestamps keep increasing and not
\* interrupted, eventually completes; before it completes it activates the
\* glow of calibration_sequence[0 .. 8R - 1] in order, each exactly once and
\* none skipped, also when the time between frames exceeds focus_time +
\* gap_time.
C19_RunCompletesInOrder ==
    /\ (ctl.calibration_active ~> RunCompleted)
    /\ [][GlowInOrder]_vars

\* A run of one round has completed whose sixteen frames were each 750 apart,
\* more than the focus time and the gap time together.
C19_Witness ==
    /\ call.op = "update"
    /\ RunCompleted
    /\ Len(ctl.calibration_sequence) = 8
    /\ ctl.focus_time + ctl.gap_time < 750
    /\ ctl.last_time - ctl.calibration_session_start = 16 * 750

(***************************************************************************)
(* The dots of the center circle during a calibration (SpecConfig)         *)
(***************************************************************************)
\* A frame of a running calibration that raises nothing.
CalibrationFrame ==
    /\ call'.op = "update"
    /\ ~call'.raised
    /\ ctl.running
    /\ ctl.calibration_active

\* The frame comes in the glow phase, at or after focus_time * 0.83 and
\* before focus_time.
InMoveWindow ==
    /\ ctl.is_in_glow_phase
    /\ 100 * (ctl'.last_time - ctl.calibration_start_time) >= 83 * ctl.focus_time
    /\ ctl'.last_time - ctl.calibration_start_time < ctl.focus_time

\* The circle that glows during the frame.
GlowingStimulus ==
    ctl.stimulus_circles[ctl.calibration_sequence[ctl.current_calibration_index + 1] + 1]

DotsFollowMoveWindow ==
    CalibrationFrame =>
        IF InMoveWindow
        THEN LET time_in_move_phase ==
                     100 * (ctl'.last_time - ctl.calibration_start_time)
                         - 83 * ctl.focus_time
                 remaining_time == 17 * ctl.focus_time
             IN  /\ 0 <= time_in_move_phase
                 /\ time_in_move_phase <= remaining_time
                 /\ ctl'.center_circle =
                        MoveDotsToward(ctl.center_circle,
                                       GlowingStimulus.center_x, GlowingStimulus.center_y,
                                       time_in_move_phase, remaining_time)
        ELSE AllDotsHome(ctl'.center_circle)

\* C20: while a calibration is active, after a frame some dot has a target
\* other than its home only if the frame came in the glow phase with
\* focus_time * 0.83 <= elapsed < focus_time, and the push then uses the
\* progress ratio (elapsed - trigger) / (focus_time - trigger), within
\* [0, 1]; after every frame of the gap phase and every frame of the glow
\* phase with elapsed < trigger or elapsed >= focus_time every dot's target
\* is its home.
C20_DotsLeaveHomeOnlyInMoveWindow == [][DotsFollowMoveWindow]_vars

(***************************************************************************)
(* The round notifications of a calibration run (SpecCal)                  *)
(***************************************************************************)
\* The frame begins a new round: the gap phase ends with
\* current_calibration_index a multiple of 8, short of the end.
NewRoundStep ==
    /\ call'.op = "update"
    /\ ~call'.raised
    /\ ctl.running
    /\ ctl.calibration_active
    /\ ctl.is_in_gap_phase
    /\ ctl'.calibration_active
    /\ ctl'.current_calibration_index = ctl.current_calibration_index + 1
    /\ ctl'.current_calibration_index % 8 = 0

\* The step hands a "Calibration: Round k/total" message to the status
\* callback (within a run k differs from one such message to the next).
RoundEmitted ==
    /\ ctl'.status.text = "Calibration: Round"
    /\ ctl'.status # ctl.status

\* The rounds of the run, those its sequence was generated for.
RoundsOfRun(c) == Len(c.calibration_sequence) \div 8

RoundsNotified ==
    /\ (call'.op = "start_calibration" /\ call'.ret = "True") =>
           ctl'.status = RoundMessage(1, RoundsOfRun(ctl'))
    /\ (call'.op = "update" /\ ctl.calibration_active) =>
           /\ RoundEmitted <=> NewRoundStep
           /\ NewRoundStep =>
                  ctl'.status = RoundMessage(ctl'.current_calibration_index \div 8 + 1,
                                             RoundsOfRun(ctl))
    /\ RoundEmitted => ctl'.status.k <= ctl'.status.total

\* C21: during a calibration run with R rounds a notification 'Round k/R' is
\* emitted exactly when a new round begins: with k = 1 at start_calibration
\* and each time current_calibration_index becomes a multiple of 8 in the gap
\* phase, with k = index / 8 + 1, so that a run emits k = 1, 2, ..., R in
\* order, and the reported k never exceeds the reported total.
C21_RoundNotifiedAtRoundStart == [][RoundsNotified]_vars

(***************************************************************************)
(* The targets set by CrowdDots.set_target (SpecTarget)                    *)
(***************************************************************************)
\* The displacement of dot i's target from its home position.
PushOf(d, i) ==
    << d.target_positions[i][1] - d.home_positions[i][1],
       d.target_positions[i][2] - d.home_positions[i][2] >>

\* v is, to the pixel, the vector of length radius * 0.5 along (dx, dy): it
\* points the same way, lies within 2 pixels of that line, and its length is
\* between radius * 0.5 - 2 and radius * 0.5 (each component is truncated
\* toward zero).
HalfRadiusAlong(v, dx, dy, radius) ==
    /\ v[1] * dx + v[2] * dy > 0
    /\ (v[1] * dy - v[2] * dx) * (v[1] * dy - v[2] * dx) <= 4 * Hypot2(dx, dy)
    /\ 4 * Hypot2(v[1], v[2]) <= radius * radius
    /\ 4 * Hypot2(v[1], v[2]) >= (radius - 4) * (radius - 4)

\* What set_target(x, y, is_moving) on the swarm d has to leave in after.
TargetLaw(d, after, x, y, is_moving) ==
    IF is_moving /\ Hypot2(x - d.cx, y - d.cy) > 10 * 10
    THEN /\ \A i \in DotIds : PushOf(after, i) = PushOf(after, 1)
         /\ HalfRadiusAlong(PushOf(after, 1), x - d.cx, y - d.cy, d.radius)
    ELSE DotsAtHome(after)

SetTargetLaw ==
    call'.op = "set_target"
        => TargetLaw(swarm, swarm', call'.args[1], call'.args[2], call'.args[3])

\* C22: after CrowdDots.set_target(x, y, is_moving), if is_moving is true and
\* the distance from the center to (x, y) exceeds 10, every dot's target
\* minus its home position is the same vector for all dots, of length
\* radius * 0.5 and pointing from the center toward (x, y); otherwise every
\* dot's target is its home position.
C22_TargetsPushedTogether == [][SetTargetLaw]_vars

\* The swarm is pushed toward the upper right box; a point at distance 10
\* would have left it at home.
C22_Witness ==
    /\ call.op = "set_target"
    /\ \A i \in DotIds : PushOf(swarm, i) = << 45, 0 - 39 >>

\* What a tick of animate leaves in the interface b with the locals t: the
\* dots were sent toward the cursor only with the dwell reached on a focused
\* box, and were sent home otherwise.
MovesOnlyAfterDwell(b, t) ==
    /\ t.is_moving => (b.is_hovering_long_enough /\ b.active_box # None)
    /\ ~t.is_moving => DotsAtHome(b.dots)

GlowAsPrescribed(c) ==
    IF c.calibration_active /\ c.is_in_glow_phase
    THEN /\ c.current_calibration_index + 1 \in DOMAIN c.calibration_sequence
         /\ Glowing(c) = { c.calibration_sequence[c.current_calibration_index + 1] }
    ELSE Glowing(c) = { }

\* C24: after any sequence of start_calibration, stop_calibration,
\* set_phase, resize and update calls, at most one stimulus circle is
\* glowing; exactly one is glowing if and only if calibration_active and
\* is_in_glow_phase are both true, and it is the circle at index
\* calibration_sequence[current_calibration_index].
C24_OneGlowInGlowPhase ==
    /\ Cardinality(Glowing(ctl)) <= 1
    /\ GlowAsPrescribed(ctl)

\* A run that was resized glows on its second stimulus.
C24_Witness ==
    /\ ctl.calibration_active /\ ctl.is_in_glow_phase
    /\ ctl.current_calibration_index = 1
    /\ ctl.width = 900
    /\ Cardinality(Glowing(ctl)) = 1

(***************************************************************************)
(* The position of an active run (SpecConfig)                              *)
(***************************************************************************)
\* The run of c stands on an element of its sequence, in one of its two
\* phases.
RunInRange(c) ==
    /\ 0 <= c.current_calibration_index
    /\ c.current_calibration_index < Len(c.calibration_sequence)
    /\ c.calibration_sequence[c.current_calibration_index + 1]
           \in 0 .. STIMULUS_CIRCLE_COUNT - 1
    /\ c.is_in_glow_phase # c.is_in_gap_phase

\* C25: whenever calibration_active is true in a run generated with a round
\* count >= 1, 0 <= current_calibration_index < len(calibration_sequence)
\* and exactly one of is_in_glow_phase and is_in_gap_phase is true; a frame
\* of such a run that raises does so for a focus_time of 0, never for an
\* index out of range.
C25_ActiveRunInRange ==
    (ctl.calibration_active /\ RoundsOfRun(ctl) >= 1)
        => /\ RunInRange(ctl)
           /\ (call.op = "update" /\ call.raised) => ctl.focus_time = 0

\* An active run with a focus time that is not positive has reached the gap
\* after its second element.
C25_Witness ==
    /\ ctl.calibration_active
    /\ ctl.focus_time <= 0
    /\ ctl.is_in_gap_phase
    /\ ctl.current_calibration_index = 1

\* C26: after any sequence of set_phase, start_calibration, stop_calibration
\* and update calls, calibration_active is true only if current_phase is the
\* calibration phase: a calibration never keeps running in the testing or
\* the start phase.
C26_ActiveOnlyInCalibrationPhase ==
    ctl.calibration_active => ctl.current_phase = PHASE_CALIBRATION

\* A run in the calibration phase that frames have taken past its first
\* element.
C26_Witness ==
    /\ ctl.calibration_active
    /\ ctl.current_phase = PHASE_CALIBRATION
    /\ ctl.current_calibration_index >= 1
    /\ call.op = "update"

(***************************************************************************)
(* The progress bar of the box that is held (SpecThreshold)                *)
(***************************************************************************)
\* The progress bar of the focused box of b is full.
FocusedBoxFull(b) == b.progress[b.active_box] = 100000

\* C27: with non-decreasing tick timestamps, at the end of every animate
\* tick on which is_hovering_long_enough is true, the progress of the
\* focused box equals 100, including when set_hover_threshold changes the
\* threshold in the middle of a dwell.
C27_HeldBoxIsFull ==
    (call.op = "animate" /\ bci.is_hovering_long_enough /\ bci.active_box # None)
        => FocusedBoxFull(bci)

(***************************************************************************)
(* The label of the start/stop button (SpecApp)                            *)
(***************************************************************************)
\* C28: in the Task_3 application, whenever the calibration start/stop
\* button is visible its label is the stop label if and only if
\* controller.calibration_active is true, after any sequence of button
\* clicks, phase changes and ticks, including a calibration that runs to
\* completion on its own.
C28_StopLabelIffActive ==
    start_button.visible
        => (start_button.text = STOP_LABEL <=> ctl.calibration_active)

(***************************************************************************)
(* The input mode of the Task_3 controller (SpecTobii)                     *)
(***************************************************************************)
\* What a set_input_mode(Tobii) call has to leave: gaze tracking running, or
\* the mouse as input mode and False returned.
TobiiModeLaw ==
    (call'.op = "set_input_mode" /\ call'.args[1] = T3_INPUT_MODE_TOBII)
        => IF call'.ret = "True" \/ ctl'.status.text = "Tobii Active"
           THEN ctl'.tobii_running
           ELSE ctl'.input_mode = T3_INPUT_MODE_MOUSE /\ call'.ret = "False"

\* C29: BCIController.set_input_mode(Tobii) returns True and reports 'Tobii
\* Active' only if gaze tracking is running afterwards; in every other
\* outcome, a failure of the subscription included, input_mode is the mouse
\* mode and the call returns False.
C29_TobiiActiveOnlyWhenRunning == [][TobiiModeLaw]_vars

(***************************************************************************)
(* Task_1 and Task_2 side by side (SpecEpoch)                              *)
(***************************************************************************)
\* C30: the dwell state machines of Task_1 and Task_2, fed the same sequence
\* of (timestamp, resolved box) inputs with non-decreasing timestamps >= 0,
\* a timestamp of exactly 0 included, have identical active_box,
\* hover_start_time, is_hovering_long_enough, lost_focus_time and
\* should_move_dots after every tick.
C30_DwellMachinesAgree ==
    /\ bci.active_box = bci1.active_box
    /\ bci.hover_start_time = bci1.hover_start_time
    /\ bci.is_hovering_long_enough = bci1.is_hovering_long_enough
    /\ bci.lost_focus_time = bci1.lost_focus_time
    /\ tick.should_move_dots = tick1.should_move_dots

============================================================================
